---- MODULE Spec2Model ----
(***************************************************************************)
(* State-machine model of dendropy.dataio.newickreader.NewickReader: the   *)
(* tree_iter generator, _parse_tree_statement, _process_tree_comments,     *)
(* _parse_tree_rooting_state and the recursive                             *)
(* _parse_tree_node_description, run over a token stream.                  *)
(*                                                                         *)
(* Python strings are sequences of one-character strings, so that          *)
(* startswith, split and replace are computed character by character.      *)
(* Python's None, True and False (where a value is tri-state) are the      *)
(* one-element sequences below: no string equals them.                     *)
(***************************************************************************)
EXTENDS Integers, Sequences, FiniteSets, TLC

VARIABLES
    cfg,                      \* the reader's options (NewickReader.__init__)
    stream,                   \* what the source may still deliver
    nexus_tokenizer,          \* the tokenizer's visible state
    consumed,                 \* the tokens delivered so far, in order
    pc,                       \* where tree_iter / _parse_tree_statement stands
    raised,                   \* the exception that ended the generator, or None
    tree_comments,            \* local of _parse_tree_statement
    tree,                     \* the tree of the statement being parsed
    nodes,                    \* its nodes, in creation order (seed_node = 1)
    stack,                    \* activations of _parse_tree_node_description
    tree_statement_complete,  \* NewickReader.tree_statement_complete
    taxon_namespace,          \* labels of the taxa created so far
    finish_calls,             \* the calls of finish_node_func, in order
    yielded,                  \* what tree_iter has yielded so far
    suspended,                \* the other tree_iter of the reader, if any
    need_tree_event,          \* ncl.py: Event, set by the consumer
    tree_ready_event,         \* ncl.py: Event, set by the producer thread
    die_event,                \* ncl.py: Event, set when the consumer is done
    ncl_streamer,             \* ncl.py: the NCLTreeStream (ntst.nts)
    ntst,                     \* ncl.py: the NCLTreeStreamThread
    iterate_over_trees        \* ncl.py: the consumer's generator

\* the variables of NCLBasedReader.iterate_over_trees and its thread
handshake == << need_tree_event, tree_ready_event, die_event, ncl_streamer,
                ntst, iterate_over_trees >>

\* the variables of NewickReader.tree_iter
parser == << cfg, stream, nexus_tokenizer, consumed, pc, raised,
             tree_comments, tree, nodes, stack, tree_statement_complete,
             taxon_namespace, finish_calls, yielded, suspended >>

vars == << parser, handshake >>

----------------------------------------------------------------------------
(* Bounds of the model. *)

\* tokens a token-structure stream may hold
MaxTokens == 6
\* tokens a stream of parentheses, separators and labels may hold
MaxSeparatorTokens == 8
\* tokens a stream may hold when it opens with comments
MaxCommentedTokens == 4
\* comments a stream may hold
MaxComments == 2
\* tokens a stream may hold when the label options vary
MaxLabelTokens == 7
\* tokens a stream may hold when its labels have underscores
MaxUnderscoreTokens == 5
\* tokens a stream may hold when comments stand before any of its tokens
MaxInterleavedTokens == 4
\* tokens a stream may hold when edge lengths are read or suppressed
MaxLengthTokens == 8
\* tokens a stream may hold when its first tree is written out and read again
MaxRoundTripTokens == 6
\* tokens a stream may hold when its labels differ in letter case
MaxCaseTokens == 6
\* tokens a stream may hold when directives stand among its tokens
MaxDirectiveTokens == 4
\* tokens a stream may hold when comments stand between its statements
MaxStatementTokens == 6
\* tokens each stream may hold when two sequences share the reader
MaxSharedTokens == 4
\* trees a file read through NCL may hold
MaxNclTrees == 2
\* tokens and comments of a stream that is read with edge lengths and
\* read again without
MaxSuppressionTokens == 6
MaxSuppressionComments == 1

----------------------------------------------------------------------------
(* Python values. *)

None == << "None" >>
PyTrue == << "True" >>
PyFalse == << "False" >>

LPAREN == << "(" >>
RPAREN == << ")" >>
COMMA == << "," >>
SEMICOLON == << ";" >>
COLON == << ":" >>

\* s.startswith(p)
StartsWith(s, p) ==
    /\ Len(s) >= Len(p)
    /\ SubSeq(s, 1, Len(p)) = p

\* the sequences over S of length at most n
SeqUpTo(S, n) == UNION { [1..k -> S] : k \in 0..n }

\* s.split(sep), sep one character
RECURSIVE Split(_, _)
Split(s, sep) ==
    IF \A i \in 1..Len(s) : s[i] # sep THEN << s >>
    ELSE LET k == CHOOSE i \in 1..Len(s) :
                    s[i] = sep /\ \A j \in 1..(i - 1) : s[j] # sep
         IN << SubSeq(s, 1, k - 1) >> \o Split(SubSeq(s, k + 1, Len(s)), sep)

\* s.strip() for the blank character
RECURSIVE Strip(_)
Strip(s) ==
    IF s # << >> /\ s[1] = " " THEN Strip(Tail(s))
    ELSE IF s # << >> /\ s[Len(s)] = " " THEN Strip(SubSeq(s, 1, Len(s) - 1))
    ELSE s

----------------------------------------------------------------------------
(* The tokenizer (nexusprocessing.NexusTokenizer): one scan skips          *)
(* whitespace, captures the comments it passes and delivers the next       *)
(* token, or finds the end of the stream.                                  *)

\* the comments one scan may pass: a stream whose comments are "leading"
\* holds them all before its first token
ScanComments ==
    IF stream.comments = "leading" /\ consumed # << >>
    THEN { << >> }
    ELSE SeqUpTo(stream.comment_vocab, stream.comments_left)

\* the outcomes of one scan of the source; a source whose text is known
\* (script) delivers its tokens one by one
Scans ==
    IF nexus_tokenizer.eof
    THEN { [kind |-> "end", comments |-> << >>] }
    ELSE IF stream.script # << >>
    THEN { [kind |-> "token", text |-> Head(stream.script).text,
            quoted |-> Head(stream.script).quoted,
            comments |-> IF "comments" \in DOMAIN Head(stream.script)
                         THEN Head(stream.script).comments ELSE << >>,
            more |-> m] :
                m \in (IF Len(stream.script) > 1 THEN { TRUE } ELSE BOOLEAN) }
    ELSE { [kind |-> "token", text |-> lx.text, quoted |-> lx.quoted,
            comments |-> cs, more |-> m] :
                lx \in (IF stream.tokens_left > 0 THEN stream.lexemes ELSE {}),
                cs \in ScanComments,
                m \in BOOLEAN }
         \cup
         { [kind |-> "end", comments |-> cs] : cs \in ScanComments }

\* the tokenizer tk after a scan r (next_token / require_next_token).
\* passed is history, kept for the streams that are logged: for every token
\* delivered, the comments that the scan passed on its way to it
TokenizerAfter(tk, r) ==
    IF r.kind = "token"
    THEN [ current_token |-> r.text,
           is_token_quoted |-> r.quoted,
           captured_comments |-> tk.captured_comments \o r.comments,
           eof |-> ~r.more,
           token_pos |-> Len(consumed) + 1,
           passed |-> IF stream.logged THEN Append(tk.passed, r.comments)
                      ELSE tk.passed ]
    ELSE [ tk EXCEPT
             !.current_token = None,
             !.captured_comments = tk.captured_comments \o r.comments,
             !.eof = TRUE ]

StreamAfter(r) ==
    [ stream EXCEPT
        !.tokens_left = IF r.kind = "token" /\ r.more /\ @ > 0 THEN @ - 1 ELSE 0,
        !.comments_left = IF r.kind = "token" /\ r.more
                          THEN @ - Len(r.comments) ELSE 0,
        !.script = IF @ = << >> THEN @ ELSE Tail(@) ]

ConsumedAfter(r) ==
    IF r.kind = "token" THEN Append(consumed, r.text) ELSE consumed

\* pull_captured_comments / clear_captured_comments leave this behind
Pulled(tk) == [ tk EXCEPT !.captured_comments = << >> ]

----------------------------------------------------------------------------
(* Comments of a tree.  The rooting option is an enumeration and is kept   *)
(* as a plain string, "None" standing for the None passthrough.            *)

RootingPolicies ==
    { "force-unrooted", "force-rooted", "default-unrooted", "default-rooted",
      "None" }

\* the comment texts used in the streams
C_R == << "&", "R" >>
C_r == << "&", "r" >>
C_U == << "&", "U" >>
C_u == << "&", "u" >>
C_W_half == << "&", "W", " ", "1", "/", "2" >>
C_W_bare == << "&", "W" >>
C_w_word == << "&", "w", " ", "x" >>
C_meta == << "&", "a", "=", "1" >>
C_amp == << "&", "x" >>
C_plain == << "c" >>

RootingComments == { C_u, C_U, C_r, C_R }

\* _parse_tree_rooting_state with the force-* tests after the comment tests
ParseTreeRootingState_CommentFirst(rooting_comment) ==
    IF rooting_comment = C_R \/ rooting_comment = C_r THEN PyTrue
    ELSE IF rooting_comment = C_U \/ rooting_comment = C_u THEN PyFalse
    ELSE IF cfg.rooting = "force-unrooted" THEN PyFalse
    ELSE IF cfg.rooting = "force-rooted" THEN PyTrue
    ELSE IF cfg.rooting = "default-rooted" THEN PyTrue
    ELSE IF cfg.rooting = "default-unrooted" THEN PyFalse
    ELSE None

\* _parse_tree_rooting_state with the default-* tests before the comment tests
ParseTreeRootingState_DefaultFirst(rooting_comment) ==
    IF cfg.rooting = "force-unrooted" THEN PyFalse
    ELSE IF cfg.rooting = "force-rooted" THEN PyTrue
    ELSE IF cfg.rooting = "default-rooted" THEN PyTrue
    ELSE IF cfg.rooting = "default-unrooted" THEN PyFalse
    ELSE IF rooting_comment = C_R \/ rooting_comment = C_r THEN PyTrue
    ELSE IF rooting_comment = C_U \/ rooting_comment = C_u THEN PyFalse
    ELSE None

\* NewickReader._parse_tree_rooting_state
ParseTreeRootingState(rooting_comment) ==
    IF cfg.rooting = "force-unrooted" THEN PyFalse
    ELSE IF cfg.rooting = "force-rooted" THEN PyTrue
    ELSE IF rooting_comment = C_R \/ rooting_comment = C_r THEN PyTrue
    ELSE IF rooting_comment = C_U \/ rooting_comment = C_u THEN PyFalse
    ELSE IF cfg.rooting = "default-rooted" THEN PyTrue
    ELSE IF cfg.rooting = "default-unrooted" THEN PyFalse
    ELSE None

\* one "key=value" item of a metadata comment, or << >> when it is none
MetadataPair(item) ==
    LET kv == Split(item, "=")
    IN IF Len(kv) = 2 /\ Strip(kv[1]) # << >>
       THEN << << Strip(kv[1]), Strip(kv[2]) >> >>
       ELSE << >>

\* nexusprocessing.parse_comment_metadata_to_annotations: the key/value
\* pairs of a comment that starts with & or &&
ParseCommentMetadata(comment) ==
    LET body == IF StartsWith(comment, << "&", "&" >>)
                THEN SubSeq(comment, 3, Len(comment))
                ELSE SubSeq(comment, 2, Len(comment))
        items == Split(body, ",")
    IN IF \E i \in 1..Len(items) : MetadataPair(items[i]) = << >>
       THEN {}
       ELSE { MetadataPair(items[i])[1] : i \in 1..Len(items) }

\* tree_factory(): a tree with one seed node, rootedness and weight unset
NewTree ==
    [ is_rooted |-> None, weight |-> None, comments |-> << >>,
      annotations |-> {}, seed_node |-> 1 ]

\* the body of the for loop of _process_tree_comments, for one comment
ProcessTreeComment(st, comment) ==
    IF comment \in RootingComments
    THEN [ st EXCEPT !.tree.is_rooted = ParseTreeRootingState(comment),
                     !.rooting_token_found = TRUE ]
    ELSE IF StartsWith(comment, << "&", "W" >>) \/ StartsWith(comment, << "&", "w" >>)
    THEN IF cfg.store_tree_weights
         \* stream_tokenizer is no name of the module: NameError, which the
         \* except clauses (IndexError, ValueError) do not catch
         THEN [ st EXCEPT !.weighting_token_found = TRUE, !.raised = "NameError" ]
         ELSE [ st EXCEPT !.weighting_token_found = TRUE,
                          !.tree.comments = Append(@, comment) ]
    ELSE IF cfg.extract_comment_metadata /\ StartsWith(comment, << "&" >>)
    THEN IF ParseCommentMetadata(comment) # {}
         THEN [ st EXCEPT !.tree.annotations = @ \cup ParseCommentMetadata(comment) ]
         ELSE [ st EXCEPT !.tree.comments = Append(@, comment) ]
    ELSE [ st EXCEPT !.tree.comments = Append(@, comment) ]

RECURSIVE ProcessTreeCommentsLoop(_, _, _)
ProcessTreeCommentsLoop(st, comments, i) ==
    IF i > Len(comments) \/ st.raised # "None" THEN st
    ELSE ProcessTreeCommentsLoop(ProcessTreeComment(st, comments[i]), comments, i + 1)

\* _process_tree_comments without lines 372-373
ProcessTreeComments_NoDefaultRooting(t, comments) ==
    LET st == ProcessTreeCommentsLoop(
                  [ tree |-> t, rooting_token_found |-> FALSE,
                    weighting_token_found |-> FALSE, raised |-> "None" ],
                  comments, 1)
        weighted == IF cfg.store_tree_weights /\ ~st.weighting_token_found
                    THEN [ st.tree EXCEPT !.weight = << "1", ".", "0" >> ]
                    ELSE st.tree
    IN IF st.raised # "None"
       THEN [ tree |-> st.tree, raised |-> st.raised ]
       ELSE [ tree |-> weighted, raised |-> "None" ]

\* _process_tree_comments with line 374 not testing store_tree_weights
ProcessTreeComments_WeightAlways(t, comments) ==
    LET st == ProcessTreeCommentsLoop(
                  [ tree |-> t, rooting_token_found |-> FALSE,
                    weighting_token_found |-> FALSE, raised |-> "None" ],
                  comments, 1)
        rooted == IF ~st.rooting_token_found
                  THEN [ st.tree EXCEPT !.is_rooted = ParseTreeRootingState(<< >>) ]
                  ELSE st.tree
        weighted == IF ~st.weighting_token_found
                    THEN [ rooted EXCEPT !.weight = << "1", ".", "0" >> ]
                    ELSE rooted
    IN IF st.raised # "None"
       THEN [ tree |-> st.tree, raised |-> st.raised ]
       ELSE [ tree |-> weighted, raised |-> "None" ]

\* NewickReader._process_tree_comments: the tree afterwards, and what it raised
ProcessTreeComments(t, comments) ==
    LET st == ProcessTreeCommentsLoop(
                  [ tree |-> t, rooting_token_found |-> FALSE,
                    weighting_token_found |-> FALSE, raised |-> "None" ],
                  comments, 1)
        rooted == IF ~st.rooting_token_found
                  THEN [ st.tree EXCEPT !.is_rooted = ParseTreeRootingState(<< >>) ]
                  ELSE st.tree
        weighted == IF cfg.store_tree_weights /\ ~st.weighting_token_found
                    THEN [ rooted EXCEPT !.weight = << "1", ".", "0" >> ]
                    ELSE rooted
    IN IF st.raised # "None"
       THEN [ tree |-> st.tree, raised |-> st.raised ]
       ELSE [ tree |-> weighted, raised |-> "None" ]

----------------------------------------------------------------------------
(* Nodes.  token_pos records the position in the stream of the token the   *)
(* tokenizer stood on when node_factory made the node.                     *)

\* tree.node_factory(): an empty node with an empty edge.  captured is
\* history: the comments handed to _process_node_comments for the node
NewNode(pos) ==
    [ label |-> None, taxon |-> None, edge_length |-> None,
      child_nodes |-> << >>, parent_node |-> 0,
      comments |-> << >>, annotations |-> {}, token_pos |-> pos,
      captured |-> << >> ]

\* _process_node_comments keeping on the comment list also the comments
\* whose metadata it extracted
ProcessNodeComment_KeptToo(node, comment) ==
    IF cfg.extract_comment_metadata /\ StartsWith(comment, << "&" >>)
    THEN IF ParseCommentMetadata(comment) # {}
         THEN [ node EXCEPT !.annotations = @ \cup ParseCommentMetadata(comment),
                            !.comments = Append(@, comment),
                            !.captured = Append(@, comment) ]
         ELSE [ node EXCEPT !.comments = Append(@, comment),
                            !.captured = Append(@, comment) ]
    ELSE [ node EXCEPT !.comments = Append(@, comment),
                       !.captured = Append(@, comment) ]

\* _process_node_comments taking the rooting and weight directives out, as
\* _process_tree_comments does
ProcessNodeComment_DirectivesTaken(node, comment) ==
    IF \/ comment \in RootingComments
       \/ StartsWith(comment, << "&", "W" >>)
       \/ StartsWith(comment, << "&", "w" >>)
    THEN [ node EXCEPT !.captured = Append(@, comment) ]
    ELSE [ node EXCEPT !.comments = Append(@, comment),
                       !.captured = Append(@, comment) ]

\* NewickReader._process_node_comments, for one comment
ProcessNodeComment(node, comment) ==
    IF cfg.extract_comment_metadata /\ StartsWith(comment, << "&" >>)
    THEN IF ParseCommentMetadata(comment) # {}
         THEN [ node EXCEPT !.annotations = @ \cup ParseCommentMetadata(comment),
                            !.captured = Append(@, comment) ]
         ELSE [ node EXCEPT !.comments = Append(@, comment),
                            !.captured = Append(@, comment) ]
    ELSE [ node EXCEPT !.comments = Append(@, comment),
                       !.captured = Append(@, comment) ]

\* NewickReader._process_node_comments
RECURSIVE ProcessNodeComments(_, _)
ProcessNodeComments(node, node_comments) ==
    IF node_comments = << >> THEN node
    ELSE ProcessNodeComments(ProcessNodeComment(node, Head(node_comments)),
                             Tail(node_comments))

\* add_child putting the new node first
AddChild_Prepend(nds, parent, child) ==
    [ nds EXCEPT ![parent].child_nodes = << child >> \o @,
                 ![child].parent_node = parent ]

\* current_node.add_child(new_node)
AddChild(nds, parent, child) ==
    [ nds EXCEPT ![parent].child_nodes = Append(@, child),
                 ![child].parent_node = parent ]

\* _finish_node that never calls the hook
FinishNode_NotCalled(calls, n, node) == calls

\* NewickReader._finish_node: the hook is handed node, which is node n of
\* the tree; seen is the node as the hook finds it
FinishNode(calls, n, node) ==
    IF cfg.finish_node_func
    THEN Append(calls, [ node |-> n, seen |-> node ])
    ELSE calls

\* a blank node: node_factory and _process_node_comments
BlankNode(node_comments, pos) ==
    ProcessNodeComments(NewNode(pos), node_comments)

\* a blank child of parent: the blank node and add_child
WithBlankChild(nds, parent, node_comments, pos) ==
    AddChild(Append(nds, BlankNode(node_comments, pos)), parent, Len(nds) + 1)

\* label.replace("_", " ")
ReplaceUnderscores(s) ==
    [ i \in 1..Len(s) |-> IF s[i] = "_" THEN " " ELSE s[i] ]

\* str.lower() on the letters of the streams
LowerChar(c) ==
    CASE c = "A" -> "a"
      [] c = "B" -> "b"
      [] OTHER -> c

Lower(s) == [ i \in 1..Len(s) |-> LowerChar(s[i]) ]

\* the index in the namespace of the taxon that label names, 0 when none does
TaxonIndex(ns, label) ==
    IF \E i \in 1..Len(ns) : Lower(ns[i]) = Lower(label)
    THEN CHOOSE i \in 1..Len(ns) :
            /\ Lower(ns[i]) = Lower(label)
            /\ \A j \in 1..(i - 1) : Lower(ns[j]) # Lower(label)
    ELSE 0

\* taxon_symbol_mapper.require_taxon_for_symbol: the namespace afterwards
NamespaceWith(ns, label) ==
    IF TaxonIndex(ns, label) = 0 THEN Append(ns, label) ELSE ns

\* taxon_symbol_mapper.require_taxon_for_symbol: the taxon returned
RequireTaxonForSymbol(ns, label) ==
    << "Taxon", TaxonIndex(NamespaceWith(ns, label), label) >>

\* edge_len_type(token): the value's text, or "ValueError"
FloatTexts ==
    { << "1" >>, << "2" >>, << "0", ".", "5" >>, << "1", ".", "0" >> }

\* a cast that takes any token
CastEdgeLength_Unchecked(token) == token

\* self.edge_len_type(nexus_tokenizer.current_token), lines 487-488
CastEdgeLength(token) ==
    IF cfg.edge_len_type = "float"
    THEN IF token \in FloatTexts
         THEN IF \E i \in 1..Len(token) : token[i] = "."
              THEN token
              ELSE token \o << ".", "0" >>
         ELSE << "ValueError" >>
    ELSE IF token \in FloatTexts /\ \A i \in 1..Len(token) : token[i] # "."
         THEN token
         ELSE << "ValueError" >>

----------------------------------------------------------------------------
(* Steps shared by the actions. *)

Top == stack[Len(stack)]

SetTop(f) == [ stack EXCEPT ![Len(stack)] = f ]

\* the activation for the seed node (is_internal_node=None)
SeedFrame ==
    [ node |-> 1, is_internal_node |-> None, node_created |-> FALSE,
      label_parsed |-> FALSE, current_node_comments |-> << >>, at |-> "open" ]

\* lines 472-481: what follows the child list of a node description
EnterLabelPhase(f, nds) ==
    [ f EXCEPT !.label_parsed = FALSE,
               !.is_internal_node =
                   IF @ = None /\ nds[f.node].child_nodes # << >>
                   THEN PyTrue ELSE @,
               !.at = "label" ]

\* the tokenizer tk reads on: scan r
Read(tk, r) ==
    /\ nexus_tokenizer' = TokenizerAfter(tk, r)
    /\ stream' = StreamAfter(r)
    /\ consumed' = ConsumedAfter(r)

\* the same, followed by pull_captured_comments
ReadAndPull(tk, r) ==
    /\ nexus_tokenizer' = Pulled(TokenizerAfter(tk, r))
    /\ stream' = StreamAfter(r)
    /\ consumed' = ConsumedAfter(r)

NoRead(tk) ==
    /\ nexus_tokenizer' = tk
    /\ UNCHANGED << stream, consumed >>

\* an exception leaves the generator
Fail(e) ==
    /\ pc' = "raised"
    /\ raised' = e

Go(p) ==
    /\ pc' = p
    /\ UNCHANGED raised

----------------------------------------------------------------------------
(* tree_iter and _parse_tree_statement. *)

\* next() on the generator: the check after yield, then lines 304-305
Request ==
    /\ pc = "idle"
    /\ IF yielded # << >> /\ yielded[Len(yielded)].kind = "None"
       THEN /\ Go("stopped")
            /\ UNCHANGED << nexus_tokenizer, tree_comments >>
       ELSE /\ Go("statement")
            /\ tree_comments' = nexus_tokenizer.captured_comments
            /\ nexus_tokenizer' = Pulled(nexus_tokenizer)
    /\ UNCHANGED << handshake, cfg, suspended, stream, consumed, tree, nodes, stack,
                    tree_statement_complete, taxon_namespace, finish_calls,
                    yielded >>

\* lines 306-308: one turn of the loop that skips ";" and None
SkipToStatement ==
    /\ pc = "statement"
    /\ nexus_tokenizer.current_token \in { SEMICOLON, None }
    /\ ~nexus_tokenizer.eof
    /\ \E r \in Scans :
          IF r.kind = "end"
          THEN /\ Read(nexus_tokenizer, r)
               /\ Fail("UnexpectedEndOfStream")
               /\ UNCHANGED tree_comments
          ELSE /\ ReadAndPull(nexus_tokenizer, r)
               /\ Go("statement")
               /\ tree_comments' = TokenizerAfter(nexus_tokenizer, r).captured_comments
    /\ UNCHANGED << handshake, cfg, suspended, tree, nodes, stack, tree_statement_complete,
                    taxon_namespace, finish_calls, yielded >>

\* lines 309-325: end of stream, a token that is no "(", or a tree is begun
BeginStatement ==
    /\ pc = "statement"
    /\ ~(nexus_tokenizer.current_token \in { SEMICOLON, None } /\ ~nexus_tokenizer.eof)
    /\ IF nexus_tokenizer.eof
       THEN /\ Go("idle")
            /\ yielded' = Append(yielded, [ kind |-> "None" ])
            /\ UNCHANGED << tree, nodes, stack, tree_statement_complete >>
       ELSE IF nexus_tokenizer.current_token # LPAREN
       THEN /\ Fail("InvalidToken")
            /\ UNCHANGED << tree, nodes, stack, tree_statement_complete, yielded >>
       ELSE LET res == ProcessTreeComments(NewTree, tree_comments)
            IN /\ tree' = res.tree
               /\ nodes' = << NewNode(nexus_tokenizer.token_pos) >>
               /\ UNCHANGED yielded
               /\ IF res.raised # "None"
                  THEN /\ Fail(res.raised)
                       /\ UNCHANGED << stack, tree_statement_complete >>
                  ELSE /\ Go("node")
                       /\ tree_statement_complete' = FALSE
                       /\ stack' = << SeedFrame >>
    /\ UNCHANGED << handshake, cfg, suspended, stream, nexus_tokenizer, consumed, tree_comments,
                    taxon_namespace, finish_calls >>

\* line 334 left out: the comments captured stay
ClearCapturedComments_Kept(tk) == tk

\* line 334: nexus_tokenizer.clear_captured_comments()
ClearCapturedComments(tk) == Pulled(tk)

\* lines 333-335: one turn of the loop that skips ";" after the statement
SkipSemicolons ==
    /\ pc = "finish"
    /\ nexus_tokenizer.current_token = SEMICOLON
    /\ ~nexus_tokenizer.eof
    /\ \E r \in Scans : Read(ClearCapturedComments(nexus_tokenizer), r)
    /\ UNCHANGED << handshake, cfg, suspended, pc, raised, tree_comments, tree, nodes, stack,
                    tree_statement_complete, taxon_namespace, finish_calls,
                    yielded >>

\* line 336 and the yield of tree_iter
YieldTree ==
    /\ pc = "finish"
    /\ ~(nexus_tokenizer.current_token = SEMICOLON /\ ~nexus_tokenizer.eof)
    /\ Go("idle")
    /\ yielded' = Append(yielded, [ kind |-> "Tree", tree |-> tree, nodes |-> nodes ])
    /\ UNCHANGED << handshake, cfg, suspended, stream, nexus_tokenizer, consumed, tree_comments, tree,
                    nodes, stack, tree_statement_complete, taxon_namespace,
                    finish_calls >>

----------------------------------------------------------------------------
(* _parse_tree_node_description, one step per token read.                  *)

\* _finish_node called after add_child
NodesAtFinish_Added(done, added) == added

\* _finish_node is called inside the node's own description (lines 501,
\* 512, 552), add_child after the description has returned (line 470)
NodesAtFinish(done, added) == done

\* the node of activation f is done (lines 499-502, 510-513, 550-553):
\* its comments are processed, it is finished, and control returns, to
\* line 470 of the parent or to line 326 for the seed node
ReturnNode(f, complete) ==
    LET done == [ nodes EXCEPT ![f.node] =
                      ProcessNodeComments(@, f.current_node_comments) ]
        added == IF Len(stack) = 1 THEN done
                 ELSE AddChild(done, stack[Len(stack) - 1].node, f.node)
    IN /\ finish_calls' = FinishNode(finish_calls, f.node,
                                     NodesAtFinish(done, added)[f.node])
       /\ tree_statement_complete' = complete
       /\ IF Len(stack) = 1
          THEN /\ nodes' = done
               /\ stack' = << >>
               /\ IF complete THEN Go("finish")
                  ELSE Fail("IncompleteTreeStatement")
          ELSE LET parent == stack[Len(stack) - 1]
               IN /\ nodes' = AddChild(done, parent.node, f.node)
                  /\ stack' = Append(SubSeq(stack, 1, Len(stack) - 2),
                                     [ parent EXCEPT !.node_created = TRUE ])
                  /\ Go("node")

\* line 473 left out: the flag stays as it was
StatementFlagAtLabels_Kept == tree_statement_complete

\* line 473: self.tree_statement_complete = False
StatementFlagAtLabels == FALSE

\* lines 416-419 (and 472-481 when the node opens no child list)
NodeOpen ==
    /\ pc = "node"
    /\ Top.at = "open"
    /\ LET f == [ Top EXCEPT !.current_node_comments =
                                 nexus_tokenizer.captured_comments ]
           tk == Pulled(nexus_tokenizer)
       IN IF tk.current_token = LPAREN
          THEN \E r \in Scans :
                 /\ Read(tk, r)
                 /\ UNCHANGED tree_statement_complete
                 /\ IF r.kind = "end"
                    THEN /\ Fail("UnexpectedEndOfStream")
                         /\ UNCHANGED stack
                    ELSE /\ Go("node")
                         /\ stack' = SetTop([ f EXCEPT !.node_created = FALSE,
                                                        !.at = "children" ])
          ELSE /\ NoRead(tk)
               /\ Go("node")
               /\ tree_statement_complete' = StatementFlagAtLabels
               /\ stack' = SetTop(EnterLabelPhase(f, nodes))
    /\ UNCHANGED << handshake, cfg, suspended, tree_comments, tree, nodes, taxon_namespace,
                    finish_calls, yielded >>

\* line 422: a "," met before any node of the list designates a blank node
\* (written with the test inverted)
LeadingBlankNeeded_Inverted(f) == f.node_created

\* line 422: a "," met before any node of the list designates a blank node
LeadingBlankNeeded(f) == ~f.node_created

\* line 441: a ")" after the commas closes a list that has no node yet
TrailingBlankNeeded(f, cur) == ~f.node_created /\ cur = RPAREN

\* lines 420-431, 449-471: one turn of the child loop, taken at its head
ChildLoop ==
    /\ pc = "node"
    /\ Top.at = "children"
    /\ LET f == Top
           cur == nexus_tokenizer.current_token
       IN IF cur = COMMA
          THEN LET blank == LeadingBlankNeeded(f)
                   tk == IF blank THEN Pulled(nexus_tokenizer) ELSE nexus_tokenizer
               IN /\ nodes' = IF blank
                              THEN WithBlankChild(nodes, f.node,
                                       nexus_tokenizer.captured_comments,
                                       nexus_tokenizer.token_pos)
                              ELSE nodes
                  /\ finish_calls' = IF blank
                                     THEN FinishNode(finish_calls, Len(nodes) + 1,
                                              BlankNode(nexus_tokenizer.captured_comments,
                                                        nexus_tokenizer.token_pos))
                                     ELSE finish_calls
                  /\ UNCHANGED tree_statement_complete
                  /\ \E r \in Scans :
                        /\ Read(tk, r)
                        /\ IF r.kind = "end"
                           THEN /\ Fail("UnexpectedEndOfStream")
                                /\ UNCHANGED stack
                           ELSE /\ Go("node")
                                /\ stack' = SetTop([ f EXCEPT !.at = "more_commas" ])
          ELSE IF cur = RPAREN
          THEN /\ UNCHANGED << nodes, finish_calls >>
               /\ \E r \in Scans :
                     /\ Read(nexus_tokenizer, r)
                     /\ IF r.kind = "end"
                        THEN /\ Fail("UnexpectedEndOfStream")
                             /\ UNCHANGED << stack, tree_statement_complete >>
                        ELSE /\ Go("node")
                             /\ tree_statement_complete' = StatementFlagAtLabels
                             /\ stack' = SetTop(EnterLabelPhase(f, nodes))
          ELSE /\ nodes' = Append(nodes,
                               ProcessNodeComments(NewNode(nexus_tokenizer.token_pos),
                                   nexus_tokenizer.captured_comments))
               /\ NoRead(Pulled(nexus_tokenizer))
               /\ Go("node")
               /\ stack' = Append(stack,
                              [ node |-> Len(nodes) + 1,
                                is_internal_node |->
                                    IF cur = LPAREN THEN PyTrue ELSE PyFalse,
                                node_created |-> FALSE,
                                label_parsed |-> FALSE,
                                current_node_comments |-> << >>,
                                at |-> "open" ])
               /\ UNCHANGED << finish_calls, tree_statement_complete >>
    /\ UNCHANGED << handshake, cfg, suspended, tree_comments, tree, taxon_namespace, yielded >>

\* lines 432-448: the commas that follow a comma, then the blank node
\* before a ")" when the list has no node yet
MoreCommas ==
    /\ pc = "node"
    /\ Top.at = "more_commas"
    /\ LET f == Top
           cur == nexus_tokenizer.current_token
           withBlank == WithBlankChild(nodes, f.node,
                            nexus_tokenizer.captured_comments,
                            nexus_tokenizer.token_pos)
           blank == BlankNode(nexus_tokenizer.captured_comments,
                              nexus_tokenizer.token_pos)
       IN IF cur = COMMA
          THEN /\ nodes' = withBlank
               /\ finish_calls' = FinishNode(finish_calls, Len(nodes) + 1, blank)
               /\ \E r \in Scans :
                     /\ Read(Pulled(nexus_tokenizer), r)
                     /\ IF r.kind = "end"
                        THEN Fail("UnexpectedEndOfStream")
                        ELSE Go("node")
               /\ UNCHANGED stack
          ELSE IF TrailingBlankNeeded(f, cur)
          THEN /\ nodes' = withBlank
               /\ finish_calls' = FinishNode(finish_calls, Len(nodes) + 1, blank)
               /\ NoRead(Pulled(nexus_tokenizer))
               /\ Go("node")
               /\ stack' = SetTop([ f EXCEPT !.node_created = TRUE,
                                              !.at = "children" ])
          ELSE /\ UNCHANGED << nodes, finish_calls >>
               /\ NoRead(nexus_tokenizer)
               /\ Go("node")
               /\ stack' = SetTop([ f EXCEPT !.at = "children" ])
    /\ UNCHANGED << handshake, cfg, suspended, tree_comments, tree, tree_statement_complete,
                    taxon_namespace, yielded >>

\* line 514 left out: a "(" is read as a label
IsNodeRestart_Never(cur) == FALSE

\* line 514: a "(" where the node's label, length or end is expected
IsNodeRestart(cur) == cur = LPAREN

\* line 532 without the test of is_token_quoted
FoldsUnderscores_Quoted(tk) == ~cfg.preserve_underscores

\* line 532: the underscores of the label token become spaces
FoldsUnderscores(tk) == ~cfg.preserve_underscores /\ ~tk.is_token_quoted

\* lines 536-537 with the two options exchanged
LabelIsPlain_Swapped(f) ==
    \/ f.is_internal_node = PyTrue /\ cfg.suppress_external_node_taxa
    \/ f.is_internal_node # PyTrue /\ cfg.suppress_internal_node_taxa

\* lines 536-537: the label is stored as a string, not resolved to a taxon
LabelIsPlain(f) ==
    \/ f.is_internal_node = PyTrue /\ cfg.suppress_internal_node_taxa
    \/ f.is_internal_node # PyTrue /\ cfg.suppress_external_node_taxa

\* line 541 left out: the label is not remembered
AfterLabel_NotFlagged(f) == f

\* line 541: the node has its label
AfterLabel(f) == [ f EXCEPT !.label_parsed = TRUE ]

\* lines 482-548: one turn of the label/length loop, taken at its head
LabelPhase ==
    /\ pc = "node"
    /\ Top.at = "label"
    /\ LET f == [ Top EXCEPT !.current_node_comments =
                                 @ \o nexus_tokenizer.captured_comments ]
           tk == Pulled(nexus_tokenizer)
           cur == tk.current_token
           fold == FoldsUnderscores(tk)
           label == IF fold THEN ReplaceUnderscores(cur) ELSE cur
           plain == LabelIsPlain(f)
       IN IF cur = COLON
          THEN /\ \E r \in Scans :
                     /\ Read(tk, r)
                     /\ IF r.kind = "end"
                        THEN /\ Fail("UnexpectedEndOfStream")
                             /\ UNCHANGED stack
                        ELSE /\ Go("node")
                             /\ stack' = SetTop([ f EXCEPT !.at = "length" ])
               /\ UNCHANGED << nodes, tree_statement_complete, taxon_namespace,
                               finish_calls >>
          ELSE IF cur = RPAREN \/ cur = COMMA
          THEN /\ NoRead(tk)
               /\ ReturnNode(f, tree_statement_complete)
               /\ UNCHANGED taxon_namespace
          ELSE IF cur = SEMICOLON
          THEN /\ \E r \in Scans : Read(tk, r)
               /\ ReturnNode(f, TRUE)
               /\ UNCHANGED taxon_namespace
          ELSE IF IsNodeRestart(cur)
          THEN /\ NoRead(tk)
               /\ Fail("MalformedStatement")
               /\ UNCHANGED << nodes, stack, tree_statement_complete,
                               taxon_namespace, finish_calls >>
          ELSE IF f.label_parsed
          THEN /\ NoRead(tk)
               /\ Fail("MalformedStatement")
               /\ UNCHANGED << nodes, stack, tree_statement_complete,
                               taxon_namespace, finish_calls >>
          ELSE IF cur = None
          \* None.replace raises; otherwise require_next_token does, the
          \* stream being at its end
          THEN /\ NoRead(tk)
               /\ Fail(IF fold THEN "AttributeError" ELSE "UnexpectedEndOfStream")
               /\ UNCHANGED << nodes, stack, tree_statement_complete,
                               taxon_namespace, finish_calls >>
          ELSE /\ nodes' = IF plain
                           THEN [ nodes EXCEPT ![f.node].label = label ]
                           ELSE [ nodes EXCEPT ![f.node].taxon =
                                      RequireTaxonForSymbol(taxon_namespace, label) ]
               /\ taxon_namespace' = IF plain THEN taxon_namespace
                                     ELSE NamespaceWith(taxon_namespace, label)
               /\ UNCHANGED << tree_statement_complete, finish_calls >>
               /\ \E r \in Scans :
                     /\ Read(tk, r)
                     /\ IF r.kind = "end"
                        THEN /\ Fail("UnexpectedEndOfStream")
                             /\ UNCHANGED stack
                        ELSE /\ Go("node")
                             /\ stack' = SetTop(AfterLabel(f))
    /\ UNCHANGED << handshake, cfg, suspended, tree_comments, tree, yielded >>

\* line 486 left out: the length is stored whatever the option says
StoresEdgeLength_Always == TRUE

\* line 486: the token after ":" is cast and stored
StoresEdgeLength == ~cfg.suppress_edge_lengths

\* lines 486-496: the token after ":" is the edge length; the next is read
LengthStep ==
    /\ pc = "node"
    /\ Top.at = "length"
    /\ LET f == Top
           edge_length == CastEdgeLength(nexus_tokenizer.current_token)
       IN IF StoresEdgeLength /\ edge_length = << "ValueError" >>
          THEN /\ NoRead(nexus_tokenizer)
               /\ Fail("MalformedStatement")
               /\ UNCHANGED << nodes, stack >>
          ELSE /\ nodes' = IF StoresEdgeLength
                           THEN [ nodes EXCEPT ![f.node].edge_length = edge_length ]
                           ELSE nodes
               /\ \E r \in Scans :
                     /\ Read(nexus_tokenizer, r)
                     /\ IF r.kind = "end"
                        THEN /\ Fail("UnexpectedEndOfStream")
                             /\ UNCHANGED stack
                        ELSE /\ Go("node")
                             /\ stack' = SetTop([ f EXCEPT !.at = "label" ])
    /\ UNCHANGED << handshake, cfg, suspended, tree_comments, tree, tree_statement_complete,
                    taxon_namespace, finish_calls, yielded >>

----------------------------------------------------------------------------
(* A writer of the grammar, and the reading of what it wrote.              *)

\* a token written bare
Lexeme(text) == [ text |-> text, quoted |-> FALSE ]

\* the label of node n of nds as the writer finds it: the label of its
\* taxon, or its own
WrittenLabel(nds, ns, n) ==
    IF nds[n].taxon # None THEN ns[nds[n].taxon[2]] ELSE nds[n].label

\* a label token: quoted when the label has a blank
LabelLexeme(label) ==
    [ text |-> label, quoted |-> \E i \in 1..Len(label) : label[i] = " " ]

\* [ label ] [ ":" length ] of node n
WriteLabelAndLength(nds, ns, n) ==
    (IF WrittenLabel(nds, ns, n) # None
     THEN << LabelLexeme(WrittenLabel(nds, ns, n)) >> ELSE << >>)
    \o (IF nds[n].edge_length # None
        THEN << Lexeme(COLON), Lexeme(nds[n].edge_length) >> ELSE << >>)

\* node := "(" node_list ")" [ label ] [ ":" length ] for a node with
\* children, [ label ] [ ":" length ] for one without;
\* node_list := node { "," node }
RECURSIVE WriteNode(_, _, _), WriteNodeList(_, _, _)
WriteNode(nds, ns, n) ==
    (IF nds[n].child_nodes # << >>
     THEN << Lexeme(LPAREN) >> \o WriteNodeList(nds, ns, nds[n].child_nodes)
              \o << Lexeme(RPAREN) >>
     ELSE << >>)
    \o WriteLabelAndLength(nds, ns, n)

WriteNodeList(nds, ns, children) ==
    IF Len(children) = 1 THEN WriteNode(nds, ns, children[1])
    ELSE WriteNode(nds, ns, children[1]) \o << Lexeme(COMMA) >>
            \o WriteNodeList(nds, ns, Tail(children))

\* statement := "(" node_list ")" [ label ] [ ":" length ] ";"
WriteTree(nds, ns) ==
    (IF nds[1].child_nodes # << >>
     THEN WriteNode(nds, ns, 1)
     ELSE << Lexeme(LPAREN), Lexeme(RPAREN) >> \o WriteLabelAndLength(nds, ns, 1))
    \o << Lexeme(SEMICOLON) >>

\* the first tree of the stream is written out, and tree_iter is started
\* on the text, with the taxon namespace of the tree
WriteAndReread ==
    /\ pc = "idle"
    /\ ~stream.written
    /\ Len(yielded) = 1
    /\ yielded[1].kind = "Tree"
    /\ stream' = [ stream EXCEPT !.tokens_left = 0,
                                 !.comments_left = 0,
                                 !.script = WriteTree(nodes, taxon_namespace),
                                 !.written = TRUE ]
    /\ nexus_tokenizer' = [ current_token |-> None, is_token_quoted |-> FALSE,
                            captured_comments |-> << >>, eof |-> FALSE,
                            token_pos |-> 0,
                            passed |-> nexus_tokenizer.passed ]
    /\ UNCHANGED << handshake, cfg, suspended, consumed, pc, raised, tree_comments, tree, nodes, stack,
                    tree_statement_complete, taxon_namespace, finish_calls,
                    yielded >>

\* the text read so far, token by token with the comments before each
SourceRead ==
    [ i \in 1..Len(consumed) |->
        [ text |-> consumed[i], quoted |-> FALSE,
          comments |-> nexus_tokenizer.passed[i] ] ]

\* the text from which the first tree was read is read again from its
\* start by a reader with suppress_edge_lengths set and otherwise the same
\* options (lines 126-128, 213)
RereadSuppressed ==
    /\ pc = "idle"
    /\ ~stream.written
    /\ Len(yielded) = 1
    /\ yielded[1].kind = "Tree"
    /\ ~cfg.suppress_edge_lengths
    /\ cfg' = [ cfg EXCEPT !.suppress_edge_lengths = TRUE ]
    /\ stream' = [ stream EXCEPT !.tokens_left = 0,
                                 !.comments_left = 0,
                                 !.script = SourceRead,
                                 !.written = TRUE ]
    /\ nexus_tokenizer' = [ current_token |-> None, is_token_quoted |-> FALSE,
                            captured_comments |-> << >>, eof |-> FALSE,
                            token_pos |-> 0,
                            passed |-> nexus_tokenizer.passed ]
    /\ UNCHANGED << handshake, suspended, consumed, pc, raised, tree_comments,
                    tree, nodes, stack, tree_statement_complete,
                    taxon_namespace, finish_calls, yielded >>

----------------------------------------------------------------------------
(* Two sequences of one reader.  A generator is left when it yields, ends  *)
(* or raises, and entered again by the next request.                       *)

\* what a sequence keeps while it is not running: the locals of tree_iter
\* and of the calls below it, and what it has given its consumer
Locals ==
    [ stream |-> stream, nexus_tokenizer |-> nexus_tokenizer,
      consumed |-> consumed, pc |-> pc, raised |-> raised,
      tree_comments |-> tree_comments, tree |-> tree, nodes |-> nodes,
      stack |-> stack, taxon_namespace |-> taxon_namespace,
      finish_calls |-> finish_calls, yielded |-> yielded ]

\* the consumer turns to the other sequence; what is on the reader itself
\* (the options, tree_statement_complete) stays as it is
Switch ==
    /\ suspended # << >>
    /\ pc \in { "idle", "stopped", "raised" }
    /\ suspended' = << Locals >>
    /\ stream' = suspended[1].stream
    /\ nexus_tokenizer' = suspended[1].nexus_tokenizer
    /\ consumed' = suspended[1].consumed
    /\ pc' = suspended[1].pc
    /\ raised' = suspended[1].raised
    /\ tree_comments' = suspended[1].tree_comments
    /\ tree' = suspended[1].tree
    /\ nodes' = suspended[1].nodes
    /\ stack' = suspended[1].stack
    /\ taxon_namespace' = suspended[1].taxon_namespace
    /\ finish_calls' = suspended[1].finish_calls
    /\ yielded' = suspended[1].yielded
    /\ UNCHANGED << handshake, cfg, tree_statement_complete >>

----------------------------------------------------------------------------
(* dendropy.dataio.ncl: NCLBasedReader.iterate_over_trees (the consumer)    *)
(* and the NCLTreeStreamThread it starts (the producer), one step per       *)
(* access to an Event or to an attribute the other thread reads.  The       *)
(* tree_tokens of the k-th tree of the file are << k >>, None is << >>.     *)
(* NCL itself is outside the repository: ReadFilepath calls handleTree      *)
(* once per tree, in file order, and may raise where the file says so.      *)

NoTokens == << >>

\* the files NCL may be given: their trees, and where reading them fails
\* ("read": ReadFilepath raises after error_at trees were handled;
\*  "handle": the taxa block of tree error_at cannot be had, lines 65-66)
NclFiles ==
    { [ trees |-> n, error |-> "none", error_at |-> 0 ] : n \in 0 .. MaxNclTrees }
    \cup { [ trees |-> n, error |-> "read", error_at |-> k ] :
              n \in 0 .. MaxNclTrees, k \in 0 .. MaxNclTrees }
    \cup { [ trees |-> n, error |-> "handle", error_at |-> k ] :
              n \in 1 .. MaxNclTrees, k \in 1 .. MaxNclTrees }

\* the states of the file records that mean something: the failure lies
\* within the file
WellFormedNclFiles == { f \in NclFiles : f.error_at <= f.trees }

ProducerAt(p) == ntst.pc = p
ConsumerAt(p) == iterate_over_trees.pc = p

ProducerGo(p) == [ ntst EXCEPT !.pc = p ]
ConsumerGo(p) == [ iterate_over_trees EXCEPT !.pc = p ]

\* run, lines 100-103
RunStart ==
    /\ ProducerAt("run")
    /\ ntst' = [ ntst EXCEPT !.done = FALSE, !.exception = "None",
                             !.pc = IF die_event THEN "wait_end" ELSE "read" ]
    /\ UNCHANGED << parser, need_tree_event, tree_ready_event, die_event,
                    ncl_streamer, iterate_over_trees >>

\* ReadFilepath (line 103): NCL reaches the next tree and calls handleTree,
\* or raises, or returns at the end of the file
ReadFilepath ==
    /\ ProducerAt("read")
    /\ ntst' =
          IF ntst.file.error = "read" /\ ntst.file.error_at = ntst.handled
          THEN [ ntst EXCEPT !.raising = "NxsException", !.pc = "except" ]
          ELSE IF ntst.handled < ntst.file.trees
          THEN ProducerGo("die_check")
          ELSE ProducerGo("wait_end")
    /\ UNCHANGED << parser, need_tree_event, tree_ready_event, die_event,
                    ncl_streamer, iterate_over_trees >>

\* handleTree, lines 56-59
HandleTreeDieCheck ==
    /\ ProducerAt("die_check")
    /\ ntst' =
          IF die_event
          THEN [ ntst EXCEPT !.raising = "RuntimeError", !.pc = "except" ]
          ELSE ProducerGo("wait")
    /\ UNCHANGED << parser, need_tree_event, tree_ready_event, die_event,
                    ncl_streamer, iterate_over_trees >>

NeedTreeAwaited_NotAwaited == TRUE

\* need_tree_event.wait() returns (lines 60 and 112)
NeedTreeAwaited == need_tree_event

\* handleTree, line 60
HandleTreeWait ==
    /\ ProducerAt("wait")
    /\ NeedTreeAwaited
    /\ ntst' = ProducerGo("clear")
    /\ UNCHANGED << parser, need_tree_event, tree_ready_event, die_event,
                    ncl_streamer, iterate_over_trees >>

\* handleTree, line 61
HandleTreeClear ==
    /\ ProducerAt("clear")
    /\ need_tree_event' = FALSE
    /\ ntst' = ProducerGo("die_recheck")
    /\ UNCHANGED << parser, tree_ready_event, die_event, ncl_streamer,
                    iterate_over_trees >>

\* handleTree, lines 62-63
HandleTreeDieRecheck ==
    /\ ProducerAt("die_recheck")
    /\ ntst' =
          IF die_event
          THEN [ ntst EXCEPT !.raising = "RuntimeError", !.pc = "except" ]
          ELSE ProducerGo("store")
    /\ UNCHANGED << parser, need_tree_event, tree_ready_event, die_event,
                    ncl_streamer, iterate_over_trees >>

\* handleTree, lines 64-74: the tree is stored, or what the except branch
\* stores instead
HandleTreeStore ==
    /\ ProducerAt("store")
    /\ IF ntst.file.error = "handle" /\ ntst.file.error_at = ntst.handled + 1
       THEN /\ ncl_streamer' = [ ncl_streamer EXCEPT
                                    !.exception = "TaxaBlockError",
                                    !.tree_tokens = NoTokens ]
            /\ ntst' = ProducerGo("ready_raise")
       ELSE /\ ncl_streamer' = [ ncl_streamer EXCEPT
                                    !.tree_tokens = << ntst.handled + 1 >> ]
            /\ ntst' = ProducerGo("ready")
    /\ UNCHANGED << parser, need_tree_event, tree_ready_event, die_event,
                    iterate_over_trees >>

\* handleTree, lines 78-79: the tree is handed over
HandleTreeReady ==
    /\ ProducerAt("ready")
    /\ tree_ready_event' = TRUE
    /\ ntst' = [ ntst EXCEPT !.handled = @ + 1,
                             !.handed = Append(@, ntst.handled + 1),
                             !.pc = "read" ]
    /\ UNCHANGED << parser, need_tree_event, die_event, ncl_streamer,
                    iterate_over_trees >>

\* handleTree, lines 75-76: the consumer is woken, then the exception
\* leaves handleTree and ReadFilepath
HandleTreeReadyRaise ==
    /\ ProducerAt("ready_raise")
    /\ tree_ready_event' = TRUE
    /\ ntst' = [ ntst EXCEPT !.raising = ncl_streamer.exception,
                             !.pc = "except" ]
    /\ UNCHANGED << parser, need_tree_event, die_event, ncl_streamer,
                    iterate_over_trees >>

\* run, lines 104-110: the exception is recorded on the thread
RunExcept ==
    /\ ProducerAt("except")
    /\ ntst' = [ ntst EXCEPT
                   !.exception = IF ncl_streamer.exception # "None"
                                 THEN ncl_streamer.exception
                                 ELSE ntst.raising,
                   !.pc = "done" ]
    /\ UNCHANGED << parser, need_tree_event, tree_ready_event, die_event,
                    ncl_streamer, iterate_over_trees >>

\* run, line 112
RunWait ==
    /\ ProducerAt("wait_end")
    /\ NeedTreeAwaited
    /\ ntst' = ProducerGo("clear_end")
    /\ UNCHANGED << parser, need_tree_event, tree_ready_event, die_event,
                    ncl_streamer, iterate_over_trees >>

\* run, line 113
RunClear ==
    /\ ProducerAt("clear_end")
    /\ need_tree_event' = FALSE
    /\ ntst' = ProducerGo("done")
    /\ UNCHANGED << parser, tree_ready_event, die_event, ncl_streamer,
                    iterate_over_trees >>

\* run, line 114
RunDone ==
    /\ ProducerAt("done")
    /\ ntst' = [ ntst EXCEPT !.done = TRUE, !.pc = "no_tokens" ]
    /\ UNCHANGED << parser, need_tree_event, tree_ready_event, die_event,
                    ncl_streamer, iterate_over_trees >>

\* run, line 115
RunNoTokens ==
    /\ ProducerAt("no_tokens")
    /\ ncl_streamer' = [ ncl_streamer EXCEPT !.tree_tokens = NoTokens ]
    /\ ntst' = ProducerGo("ready_end")
    /\ UNCHANGED << parser, need_tree_event, tree_ready_event, die_event,
                    iterate_over_trees >>

\* run, line 118: the thread ends
RunReady ==
    /\ ProducerAt("ready_end")
    /\ tree_ready_event' = TRUE
    /\ ntst' = ProducerGo("ended")
    /\ UNCHANGED << parser, need_tree_event, die_event, ncl_streamer,
                    iterate_over_trees >>

\* iterate_over_trees, lines 347-351: the thread is started, then the first
\* tree is asked for
IterateStart ==
    /\ ConsumerAt("start")
    /\ need_tree_event' = TRUE
    /\ iterate_over_trees' = ConsumerGo("loop")
    /\ UNCHANGED << parser, tree_ready_event, die_event, ncl_streamer, ntst >>

\* lines 352-354
IterateDoneCheck ==
    /\ ConsumerAt("loop")
    /\ iterate_over_trees' =
          IF ntst.done THEN ConsumerGo("after") ELSE ConsumerGo("wait")
    /\ UNCHANGED << parser, need_tree_event, tree_ready_event, die_event,
                    ncl_streamer, ntst >>

\* line 355
IterateWait ==
    /\ ConsumerAt("wait")
    /\ tree_ready_event
    /\ iterate_over_trees' = ConsumerGo("clear")
    /\ UNCHANGED << parser, need_tree_event, tree_ready_event, die_event,
                    ncl_streamer, ntst >>

\* line 356
IterateClear ==
    /\ ConsumerAt("clear")
    /\ tree_ready_event' = FALSE
    /\ iterate_over_trees' = ConsumerGo("take")
    /\ UNCHANGED << parser, need_tree_event, die_event, ncl_streamer, ntst >>

\* lines 357-362
IterateTake ==
    /\ ConsumerAt("take")
    /\ iterate_over_trees' =
          [ iterate_over_trees EXCEPT
              !.curr_tree_tokens = ncl_streamer.tree_tokens,
              !.copied = @ \o ncl_streamer.tree_tokens,
              !.pc = IF ncl_streamer.tree_tokens = NoTokens
                     THEN "after" ELSE "reset" ]
    /\ UNCHANGED << parser, need_tree_event, tree_ready_event, die_event,
                    ncl_streamer, ntst >>

\* line 363
IterateReset ==
    /\ ConsumerAt("reset")
    /\ ncl_streamer' = [ ncl_streamer EXCEPT !.tree_tokens = NoTokens ]
    /\ iterate_over_trees' = ConsumerGo("need")
    /\ UNCHANGED << parser, need_tree_event, tree_ready_event, die_event,
                    ntst >>

NeedNextTree_NotSet == need_tree_event

\* need_tree_event.set() after a tree was copied (line 364)
NeedNextTree == TRUE

\* line 364
IterateNeed ==
    /\ ConsumerAt("need")
    /\ need_tree_event' = NeedNextTree
    /\ iterate_over_trees' = ConsumerGo("parse")
    /\ UNCHANGED << parser, tree_ready_event, die_event, ncl_streamer, ntst >>

\* lines 365-367: the tokens become a tree, which is yielded, or the
\* parsing raises (lines 370-371)
IterateParse ==
    /\ ConsumerAt("parse")
    /\ \E parsed \in BOOLEAN :
          iterate_over_trees' =
             IF parsed
             THEN [ iterate_over_trees EXCEPT
                      !.taken = Append(@, iterate_over_trees.curr_tree_tokens[1]),
                      !.pc = "yielded" ]
             ELSE ConsumerGo("except")
    /\ UNCHANGED << parser, need_tree_event, tree_ready_event, die_event,
                    ncl_streamer, ntst >>

\* the next tree is requested: the generator goes on after its yield
IterateResume ==
    /\ ConsumerAt("yielded")
    /\ iterate_over_trees' = ConsumerGo("loop")
    /\ UNCHANGED << parser, need_tree_event, tree_ready_event, die_event,
                    ncl_streamer, ntst >>

\* close() on the generator while it stands at its yield (line 367):
\* GeneratorExit is no Exception, the branch at line 370 does not run and
\* nothing else of iterate_over_trees does
IterateClose ==
    /\ ConsumerAt("yielded")
    /\ iterate_over_trees' = ConsumerGo("closed")
    /\ UNCHANGED << parser, need_tree_event, tree_ready_event, die_event,
                    ncl_streamer, ntst >>

\* lines 370-372; handed_at_die keeps how many trees the thread had handed
\* over when die_event was set
IterateExceptDie ==
    /\ ConsumerAt("except")
    /\ die_event' = TRUE
    /\ iterate_over_trees' =
          [ iterate_over_trees EXCEPT !.handed_at_die = Len(ntst.handed),
                                      !.pc = "except_need" ]
    /\ UNCHANGED << parser, need_tree_event, tree_ready_event, ncl_streamer,
                    ntst >>

NeedAfterFailure_NotSet == need_tree_event

\* need_tree_event.set() in the except branch (line 373)
NeedAfterFailure == TRUE

\* lines 373-374
IterateExceptNeed ==
    /\ ConsumerAt("except_need")
    /\ need_tree_event' = NeedAfterFailure
    /\ iterate_over_trees' =
          [ iterate_over_trees EXCEPT !.raised = "ParseError", !.pc = "raised" ]
    /\ UNCHANGED << parser, tree_ready_event, die_event, ncl_streamer, ntst >>

\* lines 368-369 and 375-376
IterateAfter ==
    /\ ConsumerAt("after")
    /\ iterate_over_trees' =
          IF ntst.exception # "None"
          THEN [ iterate_over_trees EXCEPT !.raised = ntst.exception,
                                           !.pc = "raised" ]
          ELSE ConsumerGo("die")
    /\ UNCHANGED << parser, need_tree_event, tree_ready_event, die_event,
                    ncl_streamer, ntst >>

\* line 377: the generator ends
IterateDie ==
    /\ ConsumerAt("die")
    /\ die_event' = TRUE
    /\ iterate_over_trees' = ConsumerGo("returned")
    /\ UNCHANGED << parser, need_tree_event, tree_ready_event, ncl_streamer,
                    ntst >>

\* the thread
NCLTreeStreamThread ==
    \/ RunStart
    \/ ReadFilepath
    \/ HandleTreeDieCheck
    \/ HandleTreeWait
    \/ HandleTreeClear
    \/ HandleTreeDieRecheck
    \/ HandleTreeStore
    \/ HandleTreeReady
    \/ HandleTreeReadyRaise
    \/ RunExcept
    \/ RunWait
    \/ RunClear
    \/ RunDone
    \/ RunNoTokens
    \/ RunReady

\* the generator and whoever pulls it
NCLBasedReader ==
    \/ IterateStart
    \/ IterateDoneCheck
    \/ IterateWait
    \/ IterateClear
    \/ IterateTake
    \/ IterateReset
    \/ IterateNeed
    \/ IterateParse
    \/ IterateResume
    \/ IterateExceptDie
    \/ IterateExceptNeed
    \/ IterateAfter
    \/ IterateDie

\* what the generator does by itself once it was pulled: every step but
\* the pull that takes it on from its yield
IterateRuns ==
    \/ IterateStart
    \/ IterateDoneCheck
    \/ IterateWait
    \/ IterateClear
    \/ IterateTake
    \/ IterateReset
    \/ IterateNeed
    \/ IterateParse
    \/ IterateExceptDie
    \/ IterateExceptNeed
    \/ IterateAfter
    \/ IterateDie

\* no iterate_over_trees in progress
NoHandshake ==
    /\ need_tree_event = FALSE
    /\ tree_ready_event = FALSE
    /\ die_event = FALSE
    /\ ncl_streamer = [ tree_tokens |-> NoTokens, exception |-> "None" ]
    /\ ntst = [ file |-> [ trees |-> 0, error |-> "none", error_at |-> 0 ],
                pc |-> "ended", done |-> TRUE, exception |-> "None",
                raising |-> "None", handled |-> 0, handed |-> << >> ]
    /\ iterate_over_trees = [ pc |-> "returned", curr_tree_tokens |-> NoTokens,
                              copied |-> << >>, taken |-> << >>,
                              raised |-> "None", handed_at_die |-> 0 ]

----------------------------------------------------------------------------
(* Specifications. *)

\* NewickReader.__init__ with no keyword arguments (lines 208-219)
DefaultOptions ==
    [ rooting |-> "default-unrooted",
      edge_len_type |-> "float",
      suppress_edge_lengths |-> FALSE,
      extract_comment_metadata |-> FALSE,
      store_tree_weights |-> FALSE,
      finish_node_func |-> FALSE,
      case_sensitive_taxon_labels |-> FALSE,
      preserve_underscores |-> FALSE,
      suppress_internal_node_taxa |-> TRUE,
      suppress_external_node_taxa |-> FALSE,
      allow_duplicate_taxon_labels |-> FALSE ]

StructureLexemes ==
    { Lexeme(LPAREN), Lexeme(RPAREN), Lexeme(COMMA), Lexeme(SEMICOLON),
      Lexeme(COLON), Lexeme(<< "A" >>), Lexeme(<< "1" >>) }

SeparatorLexemes ==
    { Lexeme(LPAREN), Lexeme(RPAREN), Lexeme(COMMA), Lexeme(SEMICOLON),
      Lexeme(<< "A" >>) }

CommentedLexemes ==
    { Lexeme(LPAREN), Lexeme(RPAREN), Lexeme(SEMICOLON), Lexeme(<< "A" >>) }

CommentVocabulary ==
    { C_R, C_u, C_W_half, C_W_bare, C_w_word, C_plain }

\* the state after NexusTokenizer(stream) (line 247), nothing read yet
InitSequence ==
    /\ nexus_tokenizer \in
          { [ current_token |-> None, is_token_quoted |-> FALSE,
              captured_comments |-> << >>, eof |-> e, token_pos |-> 0,
              passed |-> << >> ] :
                e \in BOOLEAN }
    /\ consumed = << >>
    /\ pc = "idle"
    /\ raised = "None"
    /\ tree_comments = << >>
    /\ tree = NewTree
    /\ nodes = << >>
    /\ stack = << >>
    /\ tree_statement_complete = None
    /\ taxon_namespace = << >>
    /\ finish_calls = << >>
    /\ yielded = << >>

\* one tree_iter on the reader
InitParser ==
    /\ InitSequence
    /\ suspended = << >>
    /\ NoHandshake

\* streams of structure tokens, no comments
Init ==
    /\ cfg \in { [ DefaultOptions EXCEPT !.finish_node_func = TRUE,
                                         !.suppress_external_node_taxa = x ] :
                    x \in BOOLEAN }
    /\ stream = [ tokens_left |-> MaxTokens, comments_left |-> 0,
                  comments |-> "anywhere",
                  lexemes |-> StructureLexemes, comment_vocab |-> {},
                  script |-> << >>, written |-> FALSE, logged |-> FALSE ]
    /\ InitParser

\* streams of "(", ")", ",", ";" and one label, long enough for "(,A,,A);"
InitSeparators ==
    /\ cfg = [ DefaultOptions EXCEPT !.finish_node_func = TRUE ]
    /\ stream = [ tokens_left |-> MaxSeparatorTokens, comments_left |-> 0,
                  comments |-> "anywhere",
                  lexemes |-> SeparatorLexemes, comment_vocab |-> {},
                  script |-> << >>, written |-> FALSE, logged |-> FALSE ]
    /\ InitParser

\* streams that open with comments, under every rooting policy
InitComments ==
    /\ cfg \in { [ DefaultOptions EXCEPT !.rooting = ro,
                                         !.store_tree_weights = w ] :
                    ro \in RootingPolicies, w \in BOOLEAN }
    /\ stream = [ tokens_left |-> MaxCommentedTokens, comments_left |-> MaxComments,
                  comments |-> "leading",
                  lexemes |-> CommentedLexemes, comment_vocab |-> CommentVocabulary,
                  script |-> << >>, written |-> FALSE, logged |-> FALSE ]
    /\ InitParser

Next ==
    \/ Request
    \/ SkipToStatement
    \/ BeginStatement
    \/ NodeOpen
    \/ ChildLoop
    \/ MoreCommas
    \/ LabelPhase
    \/ LengthStep
    \/ SkipSemicolons
    \/ YieldTree

Spec == Init /\ [][Next]_vars

\* without ":" in the stream LengthStep has no step
NextSeparators ==
    \/ Request
    \/ SkipToStatement
    \/ BeginStatement
    \/ NodeOpen
    \/ ChildLoop
    \/ MoreCommas
    \/ LabelPhase
    \/ SkipSemicolons
    \/ YieldTree

SpecSeparators == InitSeparators /\ [][NextSeparators]_vars

\* without "," and ":" in the stream MoreCommas and LengthStep have no step
NextCommented ==
    \/ Request
    \/ SkipToStatement
    \/ BeginStatement
    \/ NodeOpen
    \/ ChildLoop
    \/ LabelPhase
    \/ SkipSemicolons
    \/ YieldTree

SpecComments == InitComments /\ [][NextCommented]_vars

\* streams of "(", ")", ",", ";" and one label, under every setting of the
\* options that say what becomes of a label
InitLabels ==
    /\ cfg \in { [ DefaultOptions EXCEPT !.suppress_internal_node_taxa = si,
                                         !.suppress_external_node_taxa = se,
                                         !.allow_duplicate_taxon_labels = d ] :
                    si \in BOOLEAN, se \in BOOLEAN, d \in BOOLEAN }
    /\ stream = [ tokens_left |-> MaxLabelTokens, comments_left |-> 0,
                  comments |-> "anywhere",
                  lexemes |-> SeparatorLexemes, comment_vocab |-> {},
                  script |-> << >>, written |-> FALSE, logged |-> FALSE ]
    /\ InitParser

SpecLabels == InitLabels /\ [][NextSeparators]_vars

\* the label A_B written bare, and the label B_A written in quotes
UnderscoreLexemes ==
    { Lexeme(LPAREN), Lexeme(RPAREN), Lexeme(SEMICOLON),
      Lexeme(<< "A", "_", "B" >>),
      [ text |-> << "B", "_", "A" >>, quoted |-> TRUE ] }

\* streams whose labels have underscores, with and without
\* preserve_underscores, labels resolved to taxa or not
InitUnderscores ==
    /\ cfg \in { [ DefaultOptions EXCEPT !.preserve_underscores = pu,
                                         !.suppress_external_node_taxa = se ] :
                    pu \in BOOLEAN, se \in BOOLEAN }
    /\ stream = [ tokens_left |-> MaxUnderscoreTokens, comments_left |-> 0,
                  comments |-> "anywhere",
                  lexemes |-> UnderscoreLexemes, comment_vocab |-> {},
                  script |-> << >>, written |-> FALSE, logged |-> FALSE ]
    /\ InitParser

SpecUnderscores == InitUnderscores /\ [][NextCommented]_vars

MetadataVocabulary == { C_meta, C_amp, C_plain }

\* streams with comments before any token, metadata extracted or not
InitMetadata ==
    /\ cfg \in { [ DefaultOptions EXCEPT !.extract_comment_metadata = x ] :
                    x \in BOOLEAN }
    /\ stream = [ tokens_left |-> MaxInterleavedTokens, comments_left |-> MaxComments,
                  comments |-> "anywhere",
                  lexemes |-> CommentedLexemes, comment_vocab |-> MetadataVocabulary,
                  script |-> << >>, written |-> FALSE, logged |-> FALSE ]
    /\ InitParser

SpecMetadata == InitMetadata /\ [][NextCommented]_vars

\* without "," LengthLexemes give no blank node, and MoreCommas no step
LengthLexemes ==
    { Lexeme(LPAREN), Lexeme(RPAREN), Lexeme(SEMICOLON),
      Lexeme(COLON), Lexeme(<< "A" >>), Lexeme(<< "1" >>) }

\* streams with ":" and lengths, long enough for "(A:1):1;", edge lengths
\* stored or suppressed
InitLengths ==
    /\ cfg \in { [ DefaultOptions EXCEPT !.suppress_edge_lengths = x ] :
                    x \in BOOLEAN }
    /\ stream = [ tokens_left |-> MaxLengthTokens, comments_left |-> 0,
                  comments |-> "anywhere",
                  lexemes |-> LengthLexemes, comment_vocab |-> {},
                  script |-> << >>, written |-> FALSE, logged |-> FALSE ]
    /\ InitParser

NextLengths ==
    \/ Request
    \/ SkipToStatement
    \/ BeginStatement
    \/ NodeOpen
    \/ ChildLoop
    \/ LabelPhase
    \/ LengthStep
    \/ SkipSemicolons
    \/ YieldTree

SpecLengths == InitLengths /\ [][NextLengths]_vars

\* a stream with lengths and comments, read with edge lengths stored and
\* then again with edge lengths suppressed
InitSuppression ==
    /\ cfg = DefaultOptions
    /\ stream = [ tokens_left |-> MaxSuppressionTokens,
                  comments_left |-> MaxSuppressionComments,
                  comments |-> "anywhere",
                  lexemes |-> LengthLexemes, comment_vocab |-> { C_plain },
                  script |-> << >>, written |-> FALSE, logged |-> TRUE ]
    /\ InitParser

NextSuppression ==
    \/ Request
    \/ SkipToStatement
    \/ BeginStatement
    \/ NodeOpen
    \/ ChildLoop
    \/ LabelPhase
    \/ LengthStep
    \/ SkipSemicolons
    \/ YieldTree
    \/ RereadSuppressed

SpecSuppression == InitSuppression /\ [][NextSuppression]_vars

DirectiveVocabulary == { C_R, C_W_half }

\* streams with rooting and weight directives before any token, and the
\* comments that each scan passed on record
InitDirectives ==
    /\ cfg \in { [ DefaultOptions EXCEPT !.extract_comment_metadata = x,
                                         !.store_tree_weights = w ] :
                    x \in BOOLEAN, w \in BOOLEAN }
    /\ stream = [ tokens_left |-> MaxDirectiveTokens, comments_left |-> MaxComments,
                  comments |-> "anywhere",
                  lexemes |-> CommentedLexemes, comment_vocab |-> DirectiveVocabulary,
                  script |-> << >>, written |-> FALSE, logged |-> TRUE ]
    /\ InitParser

SpecDirectives == InitDirectives /\ [][NextCommented]_vars

StatementLexemes == { Lexeme(LPAREN), Lexeme(RPAREN), Lexeme(SEMICOLON) }

StatementVocabulary == { C_R }

\* streams of several statements, long enough for "();;()", with comments
\* before any token, and the comments that each scan passed on record
InitStatements ==
    /\ cfg = DefaultOptions
    /\ stream = [ tokens_left |-> MaxStatementTokens, comments_left |-> MaxComments,
                  comments |-> "anywhere",
                  lexemes |-> StatementLexemes, comment_vocab |-> StatementVocabulary,
                  script |-> << >>, written |-> FALSE, logged |-> TRUE ]
    /\ InitParser

SpecStatements == InitStatements /\ [][NextCommented]_vars

SharedLexemes ==
    { Lexeme(LPAREN), Lexeme(RPAREN), Lexeme(COMMA), Lexeme(SEMICOLON) }

\* a stream of "(", ")", "," and ";"
SharedStream ==
    [ tokens_left |-> MaxSharedTokens, comments_left |-> 0,
      comments |-> "anywhere",
      lexemes |-> SharedLexemes, comment_vocab |-> {},
      script |-> << >>, written |-> FALSE, logged |-> FALSE ]

\* two calls of tree_iter on one reader, each on a stream of its own
InitShared ==
    /\ cfg = DefaultOptions
    /\ stream = SharedStream
    /\ InitSequence
    /\ NoHandshake
    /\ suspended \in
          { << [ stream |-> SharedStream,
              nexus_tokenizer |->
                  [ current_token |-> None, is_token_quoted |-> FALSE,
                    captured_comments |-> << >>, eof |-> e, token_pos |-> 0,
                    passed |-> << >> ],
              consumed |-> << >>, pc |-> "idle", raised |-> "None",
              tree_comments |-> << >>, tree |-> NewTree, nodes |-> << >>,
              stack |-> << >>, taxon_namespace |-> << >>,
              finish_calls |-> << >>, yielded |-> << >> ] >> : e \in BOOLEAN }

NextShared ==
    \/ Request
    \/ SkipToStatement
    \/ BeginStatement
    \/ NodeOpen
    \/ ChildLoop
    \/ MoreCommas
    \/ LabelPhase
    \/ SkipSemicolons
    \/ YieldTree
    \/ Switch

SpecShared == InitShared /\ [][NextShared]_vars

\* the label A in capital and in small letters
CaseLexemes ==
    { Lexeme(LPAREN), Lexeme(RPAREN), Lexeme(COMMA), Lexeme(SEMICOLON),
      Lexeme(<< "A" >>), Lexeme(<< "a" >>) }

\* streams whose labels differ in letter case, with and without
\* case_sensitive_taxon_labels
InitCase ==
    /\ cfg \in { [ DefaultOptions EXCEPT !.case_sensitive_taxon_labels = x ] :
                    x \in BOOLEAN }
    /\ stream = [ tokens_left |-> MaxCaseTokens, comments_left |-> 0,
                  comments |-> "anywhere",
                  lexemes |-> CaseLexemes, comment_vocab |-> {},
                  script |-> << >>, written |-> FALSE, logged |-> FALSE ]
    /\ InitParser

SpecCase == InitCase /\ [][NextSeparators]_vars

\* streams whose first tree is written out and read again
InitRoundTrip ==
    /\ cfg = DefaultOptions
    /\ stream = [ tokens_left |-> MaxRoundTripTokens, comments_left |-> 0,
                  comments |-> "anywhere",
                  lexemes |-> StructureLexemes, comment_vocab |-> {},
                  script |-> << >>, written |-> FALSE, logged |-> FALSE ]
    /\ InitParser

NextRoundTrip ==
    \/ Request
    \/ SkipToStatement
    \/ BeginStatement
    \/ NodeOpen
    \/ ChildLoop
    \/ MoreCommas
    \/ LabelPhase
    \/ LengthStep
    \/ SkipSemicolons
    \/ YieldTree
    \/ WriteAndReread

SpecRoundTrip == InitRoundTrip /\ [][NextRoundTrip]_vars

\* iterate_over_trees on a file that goes to NCL: the events of lines 338-340
\* are clear, the thread of line 341 was started at line 347 and has not
\* run yet; the pure Python reader is not used
InitHandshake ==
    /\ cfg = DefaultOptions
    /\ stream = [ tokens_left |-> 0, comments_left |-> 0,
                  comments |-> "anywhere",
                  lexemes |-> {}, comment_vocab |-> {},
                  script |-> << >>, written |-> FALSE, logged |-> FALSE ]
    /\ InitSequence
    /\ nexus_tokenizer.eof
    /\ suspended = << >>
    /\ need_tree_event = FALSE
    /\ tree_ready_event = FALSE
    /\ die_event = FALSE
    /\ ncl_streamer = [ tree_tokens |-> NoTokens, exception |-> "None" ]
    /\ ntst \in { [ file |-> f, pc |-> "run", done |-> FALSE,
                     exception |-> "None", raising |-> "None",
                     handled |-> 0, handed |-> << >> ] :
                     f \in WellFormedNclFiles }
    /\ iterate_over_trees = [ pc |-> "start", curr_tree_tokens |-> NoTokens,
                              copied |-> << >>, taken |-> << >>,
                              raised |-> "None", handed_at_die |-> 0 ]

NextHandshake ==
    \/ NCLTreeStreamThread
    \/ NCLBasedReader

SpecHandshake == InitHandshake /\ [][NextHandshake]_vars

\* a consumer that may give the generator up: it closes it, or does not
\* pull it again
NextAbandoned ==
    \/ NCLTreeStreamThread
    \/ NCLBasedReader
    \/ IterateClose

\* both threads are scheduled again and again, but nothing makes the
\* consumer pull a generator that has yielded
SpecAbandoned ==
    /\ InitHandshake
    /\ [][NextAbandoned]_vars
    /\ WF_vars(NCLTreeStreamThread)
    /\ WF_vars(IterateRuns)

\* both threads are scheduled again and again, and the generator is pulled
\* whenever it has yielded
SpecHandshakeFair ==
    /\ SpecHandshake
    /\ WF_vars(NCLTreeStreamThread)
    /\ WF_vars(NCLBasedReader)

----------------------------------------------------------------------------
(* A statement read from its tokens alone, by the grammar                  *)
(*     statement := "(" node_list ")" [label] [":" length] ";"             *)
(*     node_list := node { "," node }                                      *)
(*     node      := "(" node_list ")" [label] [":" length]                 *)
(*                | label [":" length] | empty                             *)
(* The properties below compare the tree the reader built with it.         *)

IsLabelToken(t) == t \notin { LPAREN, RPAREN, COMMA, SEMICOLON, COLON, None }

TokenAt(i) == IF i \in 1..Len(consumed) THEN consumed[i] ELSE None

\* the position after [label] [":" length] read from position i
AfterLabelAndLength(i) ==
    LET j == IF IsLabelToken(TokenAt(i)) THEN i + 1 ELSE i
    IN IF TokenAt(j) = COLON /\ IsLabelToken(TokenAt(j + 1)) THEN j + 2 ELSE j

\* the position after the node (the node list) that starts at position i,
\* 0 when the tokens are not of the grammar
RECURSIVE AfterNode(_), AfterNodeList(_)
AfterNode(i) ==
    IF TokenAt(i) = LPAREN
    THEN LET j == AfterNodeList(i + 1)
         IN IF j # 0 /\ TokenAt(j) = RPAREN THEN AfterLabelAndLength(j + 1) ELSE 0
    ELSE AfterLabelAndLength(i)

AfterNodeList(i) ==
    LET j == AfterNode(i)
    IN IF j # 0 /\ TokenAt(j) = COMMA THEN AfterNodeList(j + 1) ELSE j

\* the statement that starts at position s ends with the ";" at position e
ValidStatement(s, e) ==
    /\ TokenAt(s) = LPAREN
    /\ AfterNode(s) = e
    /\ TokenAt(e) = SEMICOLON

\* the "(" still open before position p, scanning from position i
RECURSIVE OpenBefore(_, _, _)
OpenBefore(i, p, open) ==
    IF i >= p THEN open
    ELSE IF TokenAt(i) = LPAREN THEN OpenBefore(i + 1, p, Append(open, i))
    ELSE IF TokenAt(i) = RPAREN /\ open # << >>
         THEN OpenBefore(i + 1, p, SubSeq(open, 1, Len(open) - 1))
    ELSE OpenBefore(i + 1, p, open)

\* the "(" of the group that position p lies in, 0 outside every group
GroupOf(s, p) ==
    LET open == OpenBefore(s, p, << >>)
    IN IF open = << >> THEN 0 ELSE open[Len(open)]

\* the ")" that closes the "(" at position p
CloseOf(s, e, p) ==
    CHOOSE q \in (p + 1)..e : TokenAt(q) = RPAREN /\ GroupOf(s, q) = p

\* the "," that separate the items of the group opened at p
SeparatorsOf(s, e, p) ==
    { c \in (p + 1)..e : TokenAt(c) = COMMA /\ GroupOf(s, c) = p }

\* where the items that are not empty start: a "(" or a leaf's label
ItemStarts(s, e) ==
    { p \in (s + 1)..e :
        /\ TokenAt(p - 1) \in { LPAREN, COMMA }
        /\ TokenAt(p) = LPAREN \/ IsLabelToken(TokenAt(p)) }

\* a finite set of numbers in increasing order
RECURSIVE Ascending(_)
Ascending(S) ==
    IF S = {} THEN << >>
    ELSE LET m == CHOOSE x \in S : \A y \in S : x <= y
         IN << m >> \o Ascending(S \ { m })

\* tree_iter has just yielded a tree: tree, nodes and tree_comments are its
AtYield ==
    /\ pc = "idle"
    /\ yielded # << >>
    /\ yielded[Len(yielded)].kind = "Tree"

\* the statement of the tree just yielded: its "(" and its ";"
StatementStart == nodes[1].token_pos

StatementEnd ==
    CHOOSE e \in StatementStart..Len(consumed) :
        /\ consumed[e] = SEMICOLON
        /\ \A i \in StatementStart..(e - 1) : consumed[i] # SEMICOLON

StatementTokens == SubSeq(consumed, StatementStart, StatementEnd)

\* the nodes made for an item that is not empty, and the blank ones
MadeForItem == { n \in 1..Len(nodes) : TokenAt(nodes[n].token_pos) \notin { COMMA, RPAREN } }

IsBlankNode(n) ==
    /\ nodes[n].label = None
    /\ nodes[n].taxon = None
    /\ nodes[n].edge_length = None
    /\ nodes[n].child_nodes = << >>

\* the label a node carries, as taxon or as plain label
LabelOf(n) ==
    IF nodes[n].taxon # None THEN taxon_namespace[nodes[n].taxon[2]]
    ELSE nodes[n].label

PositionsOf(children) == [ i \in 1..Len(children) |-> nodes[children[i]].token_pos ]

ItemChildren(n) == SelectSeq(nodes[n].child_nodes, LAMBDA c : c \in MadeForItem)

----------------------------------------------------------------------------
(* Properties. *)

\* C1: the tree of a valid statement nests as its parentheses do: the
\* outermost "(" is the seed node, every "(" and every leaf label is one
\* node, and the children of a group are the nodes of its items that are
\* not empty, in the order of the source; and no valid statement is
\* rejected as malformed or incomplete
C1_NestingFollowsParentheses ==
    /\ (pc = "raised" /\ raised \in { "MalformedStatement", "IncompleteTreeStatement" }) =>
          \A e \in StatementStart..Len(consumed) : ~ValidStatement(StatementStart, e)
    /\ (AtYield /\ ValidStatement(StatementStart, StatementEnd)) =>
        LET s == StatementStart
            e == StatementEnd
        IN /\ tree.seed_node = 1
           /\ TokenAt(s) = LPAREN
           /\ nodes[1].parent_node = 0
           /\ { nodes[n].token_pos : n \in MadeForItem } = ItemStarts(s, e) \cup { s }
           /\ Cardinality(MadeForItem) = Cardinality(ItemStarts(s, e)) + 1
           /\ \A n \in MadeForItem :
                 /\ PositionsOf(ItemChildren(n)) =
                        Ascending({ q \in ItemStarts(s, e) :
                                      GroupOf(s, q) = nodes[n].token_pos })
                 /\ \A i \in 1..Len(nodes[n].child_nodes) :
                        nodes[nodes[n].child_nodes[i]].parent_node = n
                 /\ TokenAt(nodes[n].token_pos) # LPAREN =>
                        /\ nodes[n].child_nodes = << >>
                        /\ LabelOf(n) = TokenAt(nodes[n].token_pos)

\* C1, witness: "((A),A);" gave a root with an inner group and a leaf
C1_Witness ==
    /\ AtYield
    /\ StatementTokens = << LPAREN, LPAREN, << "A" >>, RPAREN, COMMA, << "A" >>,
                            RPAREN, SEMICOLON >>
    /\ nodes[1].child_nodes = << 2, 4 >>
    /\ nodes[2].child_nodes = << 3 >>
    /\ LabelOf(3) = << "A" >>
    /\ LabelOf(4) = << "A" >>

\* the groups of the tree just yielded: the nodes made on a "("
Groups == { n \in MadeForItem : TokenAt(nodes[n].token_pos) = LPAREN }

ChildrenAt(n, c) ==
    { i \in 1..Len(nodes[n].child_nodes) :
        nodes[nodes[n].child_nodes[i]].token_pos = c }

\* C2: in every child list, a leading "," and every "," that directly
\* follows a "," each give exactly one blank child (no label, no taxon, no
\* edge length, no children), and the children stand in source order
C2_BlankChildPerEmptySlot ==
    AtYield =>
        LET s == StatementStart
            e == StatementEnd
        IN \A n \in Groups :
             /\ \A c \in SeparatorsOf(s, e, nodes[n].token_pos) :
                   TokenAt(c - 1) \in { LPAREN, COMMA } =>
                       /\ Cardinality(ChildrenAt(n, c)) = 1
                       /\ \A i \in ChildrenAt(n, c) :
                             IsBlankNode(nodes[n].child_nodes[i])
             /\ \A i, j \in 1..Len(nodes[n].child_nodes) :
                   i < j => nodes[nodes[n].child_nodes[i]].token_pos
                              < nodes[nodes[n].child_nodes[j]].token_pos

\* C2, witness: "(,A,,A);" gave the root the children blank, A, blank, A
C2_Witness ==
    /\ AtYield
    /\ StatementTokens = << LPAREN, COMMA, << "A" >>, COMMA, COMMA, << "A" >>,
                            RPAREN, SEMICOLON >>
    /\ nodes[1].child_nodes = << 2, 3, 4, 5 >>
    /\ IsBlankNode(2)
    /\ LabelOf(3) = << "A" >>
    /\ IsBlankNode(4)
    /\ LabelOf(5) = << "A" >>

\* C3: a child list with k >= 1 separators has k + 1 children, and when
\* its last separator is directly followed by ")" the last child is blank
C3_TrailingSeparatorBlank ==
    (AtYield /\ ValidStatement(StatementStart, StatementEnd)) =>
        LET s == StatementStart
            e == StatementEnd
        IN \A n \in Groups :
             LET seps == SeparatorsOf(s, e, nodes[n].token_pos)
                 close == CloseOf(s, e, nodes[n].token_pos)
                 kids == nodes[n].child_nodes
             IN seps # {} =>
                  /\ Len(kids) = Cardinality(seps) + 1
                  /\ TokenAt(close - 1) = COMMA =>
                        /\ IsBlankNode(kids[Len(kids)])
                        /\ nodes[kids[Len(kids)]].token_pos = close

----------------------------------------------------------------------------
(* Tree comments: rooting and weight. *)

IsWeightDirective(c) ==
    StartsWith(c, << "&", "W" >>) \/ StartsWith(c, << "&", "w" >>)

RootingDirectives == SelectSeq(tree_comments, LAMBDA c : c \in RootingComments)

WeightDirectives == SelectSeq(tree_comments, IsWeightDirective)

AllIn(seq, S) == \A i \in 1..Len(seq) : seq[i] \in S

\* _process_tree_comments has run on tree_comments, and tree is its tree
BatchProcessed ==
    \/ pc \in { "node", "finish" }
    \/ AtYield
    \/ pc = "raised" /\ raised = "NameError"

\* C4 as stated: a batch whose rooting directives are all &R or &r gives a
\* rooted tree, one whose rooting directives are all &U or &u an unrooted
\* tree, under every rooting policy.
C4_DirectiveUnderEveryPolicy ==
    (AtYield /\ RootingDirectives # << >>) =>
        /\ AllIn(RootingDirectives, { C_R, C_r }) => tree.is_rooted = PyTrue
        /\ AllIn(RootingDirectives, { C_U, C_u }) => tree.is_rooted = PyFalse

\* C4: under a rooting policy that is not force-unrooted or force-rooted, a
\* batch whose rooting directives are all &R or &r gives a rooted tree and
\* one whose rooting directives are all &U or &u an unrooted tree.
C4_DirectiveUnlessForced ==
    (/\ AtYield
     /\ RootingDirectives # << >>
     /\ cfg.rooting \notin { "force-unrooted", "force-rooted" }) =>
        /\ AllIn(RootingDirectives, { C_R, C_r }) => tree.is_rooted = PyTrue
        /\ AllIn(RootingDirectives, { C_U, C_u }) => tree.is_rooted = PyFalse

\* [&R] before a statement read under default-unrooted: the tree is rooted
C4_Witness ==
    /\ AtYield
    /\ cfg.rooting = "default-unrooted"
    /\ RootingDirectives = << C_R >>
    /\ tree.is_rooted = PyTrue

\* C5: every tree returned under force-unrooted is unrooted and every tree
\* returned under force-rooted is rooted, whatever comments came before it.
C5_ForcedRooting ==
    \A i \in 1..Len(yielded) :
        yielded[i].kind = "Tree" =>
            /\ cfg.rooting = "force-unrooted" => yielded[i].tree.is_rooted = PyFalse
            /\ cfg.rooting = "force-rooted" => yielded[i].tree.is_rooted = PyTrue

\* [&R] before a statement read under force-unrooted: the tree is unrooted
C5_Witness ==
    /\ AtYield
    /\ cfg.rooting = "force-unrooted"
    /\ \E i \in 1..Len(tree_comments) : tree_comments[i] = C_R
    /\ tree.is_rooted = PyFalse

\* C6: with no rooting directive the tree is unrooted under default-unrooted,
\* which is the policy of a reader built without options, and rooted under
\* default-rooted; a tree handed out is rooted or unrooted, and its
\* rootedness is None only when the policy is None.
C6_DefaultRooting ==
    /\ DefaultOptions.rooting = "default-unrooted"
    /\ AtYield =>
          /\ RootingDirectives = << >> =>
                /\ cfg.rooting = "default-unrooted" => tree.is_rooted = PyFalse
                /\ cfg.rooting = "default-rooted" => tree.is_rooted = PyTrue
          /\ tree.is_rooted \in { PyTrue, PyFalse, None }
          /\ tree.is_rooted = None => cfg.rooting = "None"

\* a statement without rooting comment read under default-rooted
C6_Witness ==
    /\ AtYield
    /\ cfg.rooting = "default-rooted"
    /\ RootingDirectives = << >>
    /\ tree_comments # << >>
    /\ tree.is_rooted = PyTrue

\* what a rooting directive says by itself
DirectiveValue(c) == IF c \in { C_R, C_r } THEN PyTrue ELSE PyFalse

\* C7: with more than one rooting directive before "(" and a default-*
\* policy, the first directive of the batch gives the tree's rootedness.
C7_FirstRootingDirectiveWins ==
    (/\ AtYield
     /\ Len(RootingDirectives) > 1
     /\ cfg.rooting \in { "default-unrooted", "default-rooted" }) =>
        tree.is_rooted = DirectiveValue(RootingDirectives[1])

\* C8: with store_tree_weights, a batch whose first weight directive is
\* "&W 1/2" is processed without error and the tree's weight is 0.5.
C8_WeightDirectiveSetsWeight ==
    (/\ BatchProcessed
     /\ cfg.store_tree_weights
     /\ WeightDirectives # << >>
     /\ WeightDirectives[1] = C_W_half) =>
        /\ raised # "NameError"
        /\ tree.weight = << "0", ".", "5" >>

\* C9: the weight of a tree is 1.0 exactly when store_tree_weights is set
\* and no weight directive came before the statement; without
\* store_tree_weights the weight is never assigned and the weight
\* directives are on the tree's comment list, as written and in order.
C9_DefaultWeight ==
    BatchProcessed =>
        /\ tree.weight = << "1", ".", "0" >>
              <=> (cfg.store_tree_weights /\ WeightDirectives = << >>)
        /\ ~cfg.store_tree_weights =>
              /\ tree.weight = None
              /\ SelectSeq(tree.comments, IsWeightDirective) = WeightDirectives

\* comments but no weight directive before a statement read with
\* store_tree_weights: the tree handed out weighs 1.0
C9_Witness ==
    /\ AtYield
    /\ cfg.store_tree_weights
    /\ tree_comments # << >>
    /\ WeightDirectives = << >>
    /\ tree.weight = << "1", ".", "0" >>

\* C10: with store_tree_weights, a batch whose weight directives all have
\* no payload or a payload that is no number raises nothing, and the
\* directives are kept on the tree's comment list.
C10_MalformedWeightKept ==
    (/\ BatchProcessed
     /\ cfg.store_tree_weights
     /\ WeightDirectives # << >>
     /\ AllIn(WeightDirectives, { C_W_bare, C_w_word })) =>
        /\ raised # "NameError"
        /\ SelectSeq(tree.comments, IsWeightDirective) = WeightDirectives

----------------------------------------------------------------------------
(* Comments that are no directive. *)

\* the comments whose metadata is extracted into annotations
IsExtracted(c) ==
    /\ cfg.extract_comment_metadata
    /\ StartsWith(c, << "&" >>)
    /\ ParseCommentMetadata(c) # {}

IsKept(c) == ~IsExtracted(c)

AnnotationsOf(cs) ==
    UNION { ParseCommentMetadata(cs[i]) :
                i \in { j \in 1..Len(cs) : IsExtracted(cs[j]) } }

\* the comments of the tree that are no rooting directive (weight
\* directives are none either when store_tree_weights is not set)
TreeOwnComments ==
    SelectSeq(tree_comments, LAMBDA c : c \notin RootingComments)

\* C11: a comment of a tree or node that is no consumed directive is in one
\* place: with extract_comment_metadata and a leading "&", in the
\* annotations when extraction yields a pair and else on the comment list;
\* without extract_comment_metadata always on the comment list; the comment
\* list keeps the capture order.
C11_CommentInOnePlace ==
    /\ \A n \in 1..Len(nodes) :
          /\ nodes[n].comments = SelectSeq(nodes[n].captured, IsKept)
          /\ nodes[n].annotations = AnnotationsOf(nodes[n].captured)
          /\ ~cfg.extract_comment_metadata =>
                /\ nodes[n].comments = nodes[n].captured
                /\ nodes[n].annotations = {}
    /\ (BatchProcessed /\ ~cfg.store_tree_weights) =>
          /\ tree.comments = SelectSeq(TreeOwnComments, IsKept)
          /\ tree.annotations = AnnotationsOf(TreeOwnComments)
          /\ ~cfg.extract_comment_metadata =>
                /\ tree.comments = TreeOwnComments
                /\ tree.annotations = {}

\* a node with one comment extracted and one kept, and a tree likewise
C11_Witness ==
    /\ AtYield
    /\ cfg.extract_comment_metadata
    /\ \E n \in 1..Len(nodes) :
          /\ nodes[n].captured = << C_meta, C_amp >>
          /\ nodes[n].comments = << C_amp >>
          /\ nodes[n].annotations = { << << "a" >>, << "1" >> >> }

----------------------------------------------------------------------------
(* Errors. *)

\* C12: a stream that ends while a statement is being parsed makes the
\* parse fail with IncompleteTreeStatement.
C12_EndOfStreamIsIncomplete ==
    (/\ pc = "raised"
     /\ stack # << >>
     /\ nexus_tokenizer.current_token = None) =>
        raised = "IncompleteTreeStatement"

\* the token at position i is the last one read and the tokenizer stands
\* on it: the loop named by at is about to look at it, or has just refused
\* it as malformed
RefusedAt(i, at) ==
    /\ i = Len(consumed)
    /\ nexus_tokenizer.token_pos = i
    /\ nexus_tokenizer.current_token = consumed[i]
    /\ stack # << >>
    /\ Top.at = at
    /\ \/ pc = "node"
       \/ pc = "raised" /\ raised = "MalformedStatement"

\* C13: a "(" that follows the ")" or the label or the length of a node,
\* with no "," between, raises MalformedStatement at that "(": nothing is
\* read after it and no tree comes of the statement.
C13_RestartIsMalformed ==
    \A i \in 2..Len(consumed) :
        (consumed[i] = LPAREN
            /\ consumed[i - 1] \notin { LPAREN, COMMA, SEMICOLON, COLON }) =>
                RefusedAt(i, "label")

\* "((A)A(" : the "(" after the label of the inner group
C13_Witness ==
    /\ pc = "raised"
    /\ raised = "MalformedStatement"
    /\ consumed = << LPAREN, LPAREN, << "A" >>, RPAREN, << "A" >>, LPAREN >>
    /\ yielded = << >>

\* C14: a node has at most one label: a second token that is none of
\* ( ) , ; : after the label of a node raises MalformedStatement, for a
\* leaf and for an internal node.
C14_SecondLabelIsMalformed ==
    \A i \in 3..Len(consumed) :
        (/\ IsLabelToken(consumed[i])
         /\ IsLabelToken(consumed[i - 1])
         /\ consumed[i - 2] # COLON) =>
            RefusedAt(i, "label")

\* "(A)A A" : a second label for the internal node
C14_Witness ==
    /\ pc = "raised"
    /\ raised = "MalformedStatement"
    /\ consumed = << LPAREN, << "A" >>, RPAREN, << "A" >>, << "A" >> >>
    /\ Top.is_internal_node = PyTrue
    /\ Top.label_parsed

\* where the label and lengths of the node being read begin: after the
\* last parenthesis, comma or semicolon
PhaseStart ==
    1 + CHOOSE j \in 1..Len(consumed) :
            /\ consumed[j] \in { LPAREN, RPAREN, COMMA, SEMICOLON }
            /\ \A k \in (j + 1)..(Len(consumed) - 1) :
                  consumed[k] \notin { LPAREN, RPAREN, COMMA, SEMICOLON }

\* the ":" of the node being read that stand before position i
EarlierColons(i) ==
    { j \in PhaseStart..(i - 2) : consumed[j] = COLON }

\* position i holds a token read as an edge length that is no number
BadLengthAt(i) ==
    /\ i >= 3
    /\ consumed[i - 1] = COLON
    /\ consumed[i - 2] # COLON
    /\ ~cfg.suppress_edge_lengths
    /\ cfg.edge_len_type = "float"
    /\ consumed[i] \notin FloatTexts

C16_NonParenIsInvalidToken ==
    (/\ pc = "idle"
     /\ yielded # << >>
     /\ yielded[Len(yielded)].kind = "None") =>
        nexus_tokenizer.current_token \in { None, SEMICOLON, LPAREN }

----------------------------------------------------------------------------
(* Labels and taxa. *)

\* the nodes written as a bare label
LabelledLeaves ==
    { n \in 1..Len(nodes) : IsLabelToken(TokenAt(nodes[n].token_pos)) }

\* C17: without allow_duplicate_taxon_labels no tree is returned in which
\* two leaves resolve to the same label: such a statement is an error.
C17_DuplicateLabelRefused ==
    (AtYield /\ ~cfg.allow_duplicate_taxon_labels) =>
        \A m, n \in LabelledLeaves :
            (m # n /\ nodes[m].taxon # None /\ nodes[n].taxon # None) =>
                LabelOf(m) # LabelOf(n)

\* C18: with allow_duplicate_taxon_labels two leaves written with the same
\* label have two distinct taxa, both with that label.
C18_DuplicateLabelNewTaxon ==
    (AtYield /\ cfg.allow_duplicate_taxon_labels) =>
        \A m, n \in LabelledLeaves :
            (/\ m # n
             /\ nodes[m].taxon # None
             /\ nodes[n].taxon # None
             /\ TokenAt(nodes[m].token_pos) = TokenAt(nodes[n].token_pos)) =>
                /\ nodes[m].taxon # nodes[n].taxon
                /\ LabelOf(m) = LabelOf(n)

\* a node has a label of one kind at most, and of the kind that the option
\* for internal nodes gives when internal(n) holds, and the option for
\* leaves gives when it does not
LabelKindFollows(internal(_)) ==
    \A n \in 1..Len(nodes) :
        LET plain == \/ internal(n) /\ cfg.suppress_internal_node_taxa
                     \/ ~internal(n) /\ cfg.suppress_external_node_taxa
        IN /\ ~(nodes[n].label # None /\ nodes[n].taxon # None)
           /\ nodes[n].label # None => plain
           /\ nodes[n].taxon # None => ~plain

HasChildren(n) == nodes[n].child_nodes # << >>

\* internal as the reader takes it: a node that opens with "(", and for
\* the seed node one that has children
OpensAsGroup(n) ==
    IF n = 1 THEN HasChildren(n)
    ELSE TokenAt(nodes[n].token_pos) = LPAREN

\* C19 as stated, an internal node being a node with children: the label
\* of an internal node follows suppress_internal_node_taxa and the label of
\* a leaf suppress_external_node_taxa.
C19_LabelKindByChildren ==
    AtYield => LabelKindFollows(HasChildren)

\* C19: the label of a node is stored as a string (taxon unset) when the
\* node is internal and suppress_internal_node_taxa is set, or is a leaf
\* and suppress_external_node_taxa is set, and else resolved to a taxon
\* (label unset), never both; internal is a node that opens with "(", and
\* for the seed node one that has children.
C19_LabelKindByForm ==
    LabelKindFollows(OpensAsGroup)

\* "(A,A)A;" with the default options: two leaves with taxa, a root with
\* a label
C19_Witness ==
    /\ AtYield
    /\ cfg = DefaultOptions
    /\ StatementTokens = << LPAREN, << "A" >>, COMMA, << "A" >>, RPAREN,
                            << "A" >>, SEMICOLON >>
    /\ nodes[1].label = << "A" >>
    /\ nodes[1].taxon = None
    /\ \A n \in { 2, 3 } : nodes[n].taxon # None /\ nodes[n].label = None

\* the text a label token stands for
FoldedText(token) ==
    IF token = << "A", "_", "B" >> /\ ~cfg.preserve_underscores
    THEN << "A", " ", "B" >>
    ELSE token

\* C20: the underscores of a label token become spaces exactly when the
\* token is not quoted and preserve_underscores is not set; the text so
\* obtained is the label stored or the label of the taxon resolved.
C20_UnderscoreFolding ==
    \A n \in 1..Len(nodes) :
        (nodes[n].label # None \/ nodes[n].taxon # None) =>
            /\ n \in LabelledLeaves =>
                  LabelOf(n) = FoldedText(TokenAt(nodes[n].token_pos))
            /\ \E i \in nodes[n].token_pos..Len(consumed) :
                  LabelOf(n) = FoldedText(consumed[i])

\* "(A_B);" and "(B_A);" with B_A quoted, read one after the other without
\* preserve_underscores
C20_Witness ==
    /\ AtYield
    /\ ~cfg.preserve_underscores
    /\ Len(yielded) = 1
    /\ \E n \in LabelledLeaves :
          /\ TokenAt(nodes[n].token_pos) = << "A", "_", "B" >>
          /\ LabelOf(n) = << "A", " ", "B" >>

----------------------------------------------------------------------------
(* Edge lengths. *)

\* the token that the description of node n gives as its length, None when
\* the description has no ":"; n a node of a statement of the grammar
LengthTokenOf(n) ==
    LET end == AfterNode(nodes[n].token_pos)
    IN IF n \in MadeForItem /\ TokenAt(end - 2) = COLON
       THEN TokenAt(end - 1)
       ELSE None

\* C21: the edge length of a node, the root included, is the cast of the
\* token after the ":" of its description when edge lengths are not
\* suppressed, and is absent when the description has no ":"; with
\* suppress_edge_lengths no node ever has an edge length.
C21_EdgeLengthFromDescription ==
    /\ cfg.suppress_edge_lengths =>
          \A n \in 1..Len(nodes) : nodes[n].edge_length = None
    /\ (/\ AtYield
        /\ ValidStatement(StatementStart, StatementEnd)
        /\ ~cfg.suppress_edge_lengths) =>
          \A n \in 1..Len(nodes) :
              nodes[n].edge_length =
                  IF LengthTokenOf(n) = None THEN None
                  ELSE CastEdgeLength(LengthTokenOf(n))

\* "(A:1):1;" : the leaf and the root both have the edge length 1.0
C21_Witness ==
    /\ AtYield
    /\ ~cfg.suppress_edge_lengths
    /\ StatementTokens = << LPAREN, << "A" >>, COLON, << "1" >>, RPAREN,
                            COLON, << "1" >>, SEMICOLON >>
    /\ nodes[1].edge_length = << "1", ".", "0" >>
    /\ nodes[2].edge_length = << "1", ".", "0" >>

----------------------------------------------------------------------------
(* The hook finish_node_func. *)

\* the calls of the hook for node n of the tree just yielded
CallsFor(n) ==
    { i \in 1..Len(finish_calls) :
        /\ finish_calls[i].node = n
        /\ finish_calls[i].seen.token_pos >= StatementStart }

\* C22: with finish_node_func, every node of a tree returned (root,
\* internal node, leaf, blank node) was handed to the hook exactly once,
\* with the label or taxon, edge length, comments and children it has in
\* the tree, not yet attached to its parent, and after all its children.
C22_FinishedOncePerNode ==
    (AtYield /\ cfg.finish_node_func) =>
        \A n \in 1..Len(nodes) :
            /\ Cardinality(CallsFor(n)) = 1
            /\ \A i \in CallsFor(n) :
                  /\ finish_calls[i].seen = [ nodes[n] EXCEPT !.parent_node = 0 ]
                  /\ \A k \in 1..Len(nodes[n].child_nodes) :
                        \A j \in CallsFor(nodes[n].child_nodes[k]) : j < i

\* "(,A);" : the hook got the blank node, then the leaf with its taxon,
\* then the root with its two children
C22_Witness ==
    /\ AtYield
    /\ cfg.finish_node_func
    /\ StatementTokens = << LPAREN, COMMA, << "A" >>, RPAREN, SEMICOLON >>
    /\ Len(finish_calls) = 3
    /\ IsBlankNode(2)
    /\ finish_calls[1].node = 2
    /\ finish_calls[2].seen.taxon = << "Taxon", 1 >>
    /\ finish_calls[3].seen.child_nodes = << 2, 3 >>

----------------------------------------------------------------------------
(* The sequence of trees. *)

\* C23: tree_iter yields one Tree for each statement of the stream and
\* nothing else: every element it yields is a Tree, and the request after
\* the last tree ends the sequence without a further element.
C23_YieldsOnlyTrees ==
    \A i \in 1..Len(yielded) : yielded[i].kind = "Tree"

\* C24: a stream that holds no statement, only ";" tokens or nothing,
\* gives an empty sequence and no error.
C24_NoStatementNoElement ==
    (\A i \in 1..Len(consumed) : consumed[i] = SEMICOLON) =>
        /\ raised = "None"
        /\ yielded = << >>

----------------------------------------------------------------------------
(* Round trip. *)

\* the tree under node n: label, edge length and the children in order
RECURSIVE Shape(_, _, _)
Shape(nds, ns, n) ==
    << WrittenLabel(nds, ns, n), nds[n].edge_length,
       [ k \in 1..Len(nds[n].child_nodes) |-> Shape(nds, ns, nds[n].child_nodes[k]) ] >>

\* the first statement of the stream: its "(" and its ";"
FirstStart == yielded[1].nodes[1].token_pos

FirstEnd ==
    CHOOSE e \in FirstStart..Len(consumed) :
        /\ consumed[e] = SEMICOLON
        /\ \A i \in FirstStart..(e - 1) : consumed[i] # SEMICOLON

\* C25: the tree of a statement of the grammar, written out by a writer of
\* the grammar and read again, is read without error and comes back with
\* the same topology, child order, labels and edge lengths.
C25_RoundTrip ==
    (/\ stream.written
     /\ ValidStatement(FirstStart, FirstEnd)) =>
        /\ raised = "None"
        /\ (pc = "idle" /\ Len(yielded) >= 2) =>
              /\ yielded[2].kind = "Tree"
              /\ Shape(yielded[2].nodes, taxon_namespace, 1)
                    = Shape(yielded[1].nodes, taxon_namespace, 1)

----------------------------------------------------------------------------
(* Letter case of taxon labels. *)

\* C26: two leaves whose labels differ only in letter case have the same
\* taxon without case_sensitive_taxon_labels and two different taxa with it.
C26_CaseOptionApplied ==
    AtYield =>
        \A m, n \in LabelledLeaves :
            (/\ nodes[m].taxon # None
             /\ nodes[n].taxon # None
             /\ TokenAt(nodes[m].token_pos) # TokenAt(nodes[n].token_pos)
             /\ Lower(TokenAt(nodes[m].token_pos)) = Lower(TokenAt(nodes[n].token_pos))) =>
                IF cfg.case_sensitive_taxon_labels
                THEN nodes[m].taxon # nodes[n].taxon
                ELSE nodes[m].taxon = nodes[n].taxon

----------------------------------------------------------------------------
(* Comments at node level. *)

IsDirective(c) == c \in RootingComments \/ IsWeightDirective(c)

\* the comments of the stream that stand after token i and before or at
\* token j, in order
RECURSIVE PassedBetween(_, _)
PassedBetween(i, j) ==
    IF i >= j THEN << >>
    ELSE PassedBetween(i, j - 1) \o nexus_tokenizer.passed[j]

\* the comments handed to the nodes 1..n of the tree
RECURSIVE CapturedUpTo(_)
CapturedUpTo(n) ==
    IF n = 0 THEN << >> ELSE CapturedUpTo(n - 1) \o nodes[n].captured

Count(seq, c) == Cardinality({ i \in 1..Len(seq) : seq[i] = c })

\* C27: the comments passed after the "(" of a statement and up to its ";"
\* are each handed to one node, those passed on the way to the first token
\* of a node to that node; a rooting or weight directive among them is on
\* the comment list of its node as written, and the tree is as the
\* comments before the "(" left it.
C27_NodeCommentsStayOnNode ==
    /\ \A n \in 1..Len(nodes) :
          SelectSeq(nodes[n].comments, IsDirective)
              = SelectSeq(nodes[n].captured, IsDirective)
    /\ BatchProcessed =>
          tree = ProcessTreeComments(NewTree, tree_comments).tree
    /\ (AtYield /\ ValidStatement(StatementStart, StatementEnd)) =>
          /\ \A c \in DirectiveVocabulary :
                Count(PassedBetween(StatementStart, StatementEnd), c)
                    = Count(CapturedUpTo(Len(nodes)), c)
          /\ \A n \in 2..Len(nodes) :
                LET own == nexus_tokenizer.passed[nodes[n].token_pos]
                IN SubSeq(nodes[n].captured, 1, Len(own)) = own

\* "([&R]A[&W 1/2]);" read with store_tree_weights: both directives are on
\* the leaf, the tree is unrooted and weighs 1.0
C27_Witness ==
    /\ AtYield
    /\ cfg.store_tree_weights
    /\ cfg.rooting = "default-unrooted"
    /\ StatementTokens = << LPAREN, << "A" >>, RPAREN, SEMICOLON >>
    /\ nodes[2].comments = << C_R, C_W_half >>
    /\ tree.is_rooted = PyFalse
    /\ tree.weight = << "1", ".", "0" >>

----------------------------------------------------------------------------
(* Comments at tree level. *)

\* a statement is being read or has just been yielded
InStatement == pc \in { "node", "finish" } \/ AtYield

\* C28: the comments of a tree are the comments that stand between the
\* last ";" before its "(" (or the start of the stream) and that "(":
\* comments before a ";" that is skipped are dropped, and the comments
\* after the ";" of a statement go to the next tree: the tree of a statement
\* and its nodes hold the comments passed from before its "(" up to its
\* ";" and no others.
C28_TreeCommentsPrecedeParen ==
    InStatement =>
        /\ StatementStart > 1 => consumed[StatementStart - 1] = SEMICOLON
        /\ tree_comments = nexus_tokenizer.passed[StatementStart]
        /\ tree = ProcessTreeComments(NewTree, nexus_tokenizer.passed[StatementStart]).tree
        /\ (AtYield /\ ValidStatement(StatementStart, StatementEnd)) =>
              \A c \in StatementVocabulary :
                  Count(tree_comments \o CapturedUpTo(Len(nodes)), c)
                      = Count(PassedBetween(StatementStart - 1, StatementEnd), c)

\* "();[&R];()" : the [&R] before the ";" that is skipped is dropped, both
\* trees are unrooted
C28_Witness ==
    /\ pc = "node"
    /\ Len(yielded) = 1
    /\ consumed = << LPAREN, RPAREN, SEMICOLON, SEMICOLON, LPAREN, RPAREN >>
    /\ nexus_tokenizer.passed[4] = << C_R >>
    /\ nexus_tokenizer.passed[5] = << >>
    /\ yielded[1].tree.is_rooted = PyFalse
    /\ yielded[1].tree.comments = << >>
    /\ yielded[1].nodes[1].comments = << >>
    /\ tree.is_rooted = PyFalse

----------------------------------------------------------------------------
(* Sequences that share the reader. *)

\* the seed node is in its label loop
SeedAtLabels == pc = "node" /\ Len(stack) = 1 /\ Top.at = "label"

\* C29: with two sequences of one reader pulled in any order, whether a
\* statement gives a tree or IncompleteTreeStatement depends on the token
\* that ends the seed node alone, as for a sequence run by itself: in every
\* step of the sequence that runs, the seed node ends on ";" with a tree
\* and on ")" or "," with the error, whatever the other sequence left in
\* tree_statement_complete.
C29_OutcomeFromOwnStatement ==
    [][ suspended' = suspended =>
          /\ (SeedAtLabels /\ pc' = "finish") =>
                nexus_tokenizer.current_token = SEMICOLON
          /\ (SeedAtLabels /\ nexus_tokenizer.current_token = SEMICOLON) =>
                pc' = "finish"
          /\ (SeedAtLabels /\ nexus_tokenizer.current_token \in { RPAREN, COMMA }) =>
                (pc' = "raised" /\ raised' = "IncompleteTreeStatement")
          /\ (pc' = "raised" /\ raised' = "IncompleteTreeStatement" /\ pc # "raised") =>
                (SeedAtLabels /\ nexus_tokenizer.current_token \in { RPAREN, COMMA })
      ]_vars

\* "())" raised IncompleteTreeStatement in one sequence after "();" gave a
\* tree in the other and left tree_statement_complete set
C29_Witness ==
    /\ pc = "raised"
    /\ raised = "IncompleteTreeStatement"
    /\ consumed = << LPAREN, RPAREN, RPAREN >>
    /\ suspended[1].consumed = << LPAREN, RPAREN, SEMICOLON >>
    /\ Len(suspended[1].yielded) = 1
    /\ suspended[1].yielded[1].kind = "Tree"
    /\ suspended[1].pc = "idle"

----------------------------------------------------------------------------
(* The handshake of iterate_over_trees with its thread. *)

\* the generator ended, and not by a failure of its own
ConsumerEnded ==
    \/ ConsumerAt("returned")
    \/ ConsumerAt("raised") /\ iterate_over_trees.raised # "ParseError"

\* C30: every tree handleTree hands over (tree_tokens stored, ready_event
\* set) is taken by the consumer exactly once and in the order of the file,
\* under every interleaving: what was taken is at all times the beginning
\* of what was handed over, and when the iteration has ended, also after
\* the thread failed or finished, it is all of it.
C30_HandedTreesAllTaken ==
    /\ Len(iterate_over_trees.taken) <= Len(ntst.handed)
    /\ \A i \in 1 .. Len(iterate_over_trees.taken) :
          iterate_over_trees.taken[i] = ntst.handed[i]
    /\ ConsumerEnded => iterate_over_trees.taken = ntst.handed

\* the trees handed over and not yet copied by the consumer (line 359)
Unread == Len(ntst.handed) - Len(iterate_over_trees.copied)

\* C31: the slot holds one tree at most.  handleTree stores a tree (lines
\* 64-68) only when the consumer has copied every tree handed over before
\* and has emptied the slot, so no unread tree is overwritten by it, and
\* the thread is never more than one tree ahead of the consumer.
C31_OneSlotBuffer ==
    /\ Unread \in { 0, 1 }
    /\ \A i \in 1 .. Len(iterate_over_trees.copied) :
          iterate_over_trees.copied[i] = ntst.handed[i]
    /\ ProducerAt("store") =>
          /\ Unread = 0
          /\ ncl_streamer.tree_tokens = NoTokens
    /\ ProducerAt("ready") =>
          /\ Unread = 0
          /\ ncl_streamer.tree_tokens = << ntst.handled + 1 >>

\* the second tree of a file was stored after the first was copied, and
\* waits in the slot
C31_Witness ==
    /\ ntst.handed = << 1, 2 >>
    /\ iterate_over_trees.copied = << 1 >>
    /\ ncl_streamer.tree_tokens = << 2 >>
    /\ ConsumerAt("yielded")

\* the consumer's own parsing of a tree failed (lines 370-374)
ConsumerFailed ==
    \/ ConsumerAt("except")
    \/ ConsumerAt("except_need")
    \/ iterate_over_trees.raised = "ParseError"

\* the iteration ended normally after the n trees of the file, in order,
\* and the thread has run to its end
EndedAfterAllTrees ==
    /\ ConsumerAt("returned")
    /\ Len(iterate_over_trees.taken) = ntst.file.trees
    /\ \A i \in 1 .. ntst.file.trees : iterate_over_trees.taken[i] = i
    /\ ntst.done
    /\ ProducerAt("ended")

\* C32: when NCL reads a file of n trees without a failure and the consumer
\* keeps requesting (and fails at no tree), then with both threads
\* scheduled fairly the iteration ends after exactly the n trees and the
\* thread reaches done = True: no interleaving leaves the two threads
\* waiting for each other's event.
C32_HandshakeTerminates ==
    (ntst.file.error = "none") ~> (ConsumerFailed \/ EndedAfterAllTrees)

\* a file of MaxNclTrees trees was read to its end by both threads
C32_Witness ==
    /\ ntst.file.error = "none"
    /\ ntst.file.trees = MaxNclTrees
    /\ EndedAfterAllTrees
    /\ ~ConsumerFailed

\* the thread failed on the file: ReadFilepath raised, or handleTree did
\* in its try block (lines 64-76)
ProducerFailedOnFile ==
    \/ ntst.raising \in { "NxsException", "TaxaBlockError" }
    \/ ncl_streamer.exception # "None"

\* C33: whenever the thread fails, by an exception inside handleTree or
\* inside ReadFilepath, iterate_over_trees raises that exception instead
\* of ending normally, in every interleaving of the thread's
\* ready_event.set() and recording of the exception with the consumer's
\* test of ntst.exception: the generator never returns when the thread
\* has failed on the file, and what it raises then is what the thread
\* raised.
C33_ProducerFailureRaised ==
    ProducerFailedOnFile =>
       /\ ~ConsumerAt("returned")
       /\ ~ConsumerAt("die")
       /\ (ConsumerAt("raised") /\ ~ConsumerFailed) =>
              iterate_over_trees.raised = ntst.raising

\* the consumer's exception has left iterate_over_trees (line 374)
ConsumerRaisedOwn ==
    ConsumerAt("raised") /\ iterate_over_trees.raised = "ParseError"

\* the thread has run to its end
ProducerStopped == ntst.done /\ ProducerAt("ended")

\* C34 as stated: when the consumer raises inside iterate_over_trees,
\* die_event and need_tree_event are set, and the thread, wherever it is,
\* hands over no further tree, eventually stops and reaches done = True.
C34_NoTreeAfterConsumerFailure ==
    /\ [][ (ConsumerAt("except_need") /\ ConsumerAt("raised")') =>
              (die_event' /\ need_tree_event') ]_vars
    /\ [][ ConsumerRaisedOwn => ntst.handed' = ntst.handed ]_vars
    /\ ConsumerRaisedOwn ~> ProducerStopped

\* C34, amended: the thread may still hand over the one tree for which it
\* had passed its test of die_event (line 62) before die_event was set;
\* it hands over no other, eventually stops and reaches done = True.
C34_ProducerStopsAfterConsumerFailure ==
    /\ [][ (ConsumerAt("except_need") /\ ConsumerAt("raised")') =>
              (die_event' /\ need_tree_event') ]_vars
    /\ [] ( ConsumerRaisedOwn =>
              /\ die_event
              /\ Len(ntst.handed) <= iterate_over_trees.handed_at_die + 1 )
    /\ ConsumerRaisedOwn ~> ProducerStopped

\* the consumer failed on the first tree of a file of two, the thread
\* handed the second over all the same and has stopped
C34_Witness ==
    /\ ConsumerRaisedOwn
    /\ ProducerStopped
    /\ iterate_over_trees.copied = << 1 >>
    /\ iterate_over_trees.handed_at_die = 1
    /\ ntst.handed = << 1, 2 >>

\* the generator stands at its yield, or was closed there
ConsumerSuspended == ConsumerAt("yielded") \/ ConsumerAt("closed")

\* C35: when the consumer stops requesting trees before the end of the
\* file (the generator is closed, or never resumed, and no exception was
\* raised inside it), the thread eventually terminates: it does not stay
\* in need_tree_event.wait() for ever.
C35_AbandonedProducerTerminates ==
    <>[]ConsumerSuspended => <>ProducerStopped

----------------------------------------------------------------------------
(* The end of a statement. *)

\* C36: a tree is returned only for a statement with balanced parentheses:
\* the ";" that completes it is read with no parenthesis open.  A ";" met
\* while a "(" of the statement is still open never leads to a tree.
C36_TreeOnlyWhenBalanced ==
    AtYield => OpenBefore(StatementStart, StatementEnd, << >>) = << >>

\* C37: whenever the description of the seed node ends on ")" or on ","
\* instead of ";", the completion flag is false when the description
\* returns, IncompleteTreeStatement is raised and no tree is returned.
C37_SeedEndingOnCloserIsIncomplete ==
    [][ (SeedAtLabels /\ nexus_tokenizer.current_token \in { RPAREN, COMMA }) =>
           /\ ~tree_statement_complete'
           /\ pc' = "raised"
           /\ raised' = "IncompleteTreeStatement"
           /\ yielded' = yielded
      ]_vars

\* "(A))" and "(A)," were refused as incomplete, nothing was yielded
C37_Witness ==
    /\ pc = "raised"
    /\ raised = "IncompleteTreeStatement"
    /\ yielded = << >>
    /\ ~tree_statement_complete
    /\ \/ consumed = << LPAREN, << "A" >>, RPAREN, RPAREN >>
       \/ consumed = << LPAREN, << "A" >>, RPAREN, COMMA >>

----------------------------------------------------------------------------
(* The shape of a node description. *)

\* the tokens that may stand after the ":length" of a node in the grammar
AfterLengthTokens == { COMMA, RPAREN, SEMICOLON }

\* C38: a node description that is accepted has at most one label,
\* followed by at most one ":length": in the statement of a tree that was
\* returned, what follows a length is never a label (a label after the
\* length) nor a ":" (a second length), and no label follows a label.
C38_NodeHasGrammarShape ==
    AtYield =>
       \A i \in StatementStart .. (StatementEnd - 2) :
          /\ consumed[i] = COLON => consumed[i + 2] \in AfterLengthTokens
          /\ ~(consumed[i] = << "A" >> /\ consumed[i + 1] = << "A" >>)

----------------------------------------------------------------------------
(* Edge lengths suppressed. *)

\* a node without its edge length and without the model's history fields
SansLength(nd) ==
    [ label |-> nd.label, taxon |-> nd.taxon, child_nodes |-> nd.child_nodes,
      parent_node |-> nd.parent_node, comments |-> nd.comments,
      annotations |-> nd.annotations ]

SansLengths(nds) == [ n \in 1..Len(nds) |-> SansLength(nds[n]) ]

\* the tokens of the first reading, which the second reading is given
FirstReading == (Len(consumed) + Len(stream.script)) \div 2

\* C39: suppressing edge lengths changes nothing but the lengths.  A text
\* from which a tree was read with suppress_edge_lengths False, read again
\* with suppress_edge_lengths True, raises nothing, consumes the same
\* tokens and yields a tree with the same nodes in the same order, the
\* same labels, taxa and comments, and no edge length on any node.
C39_SuppressionOnlyDropsLengths ==
    stream.written =>
       /\ Len(yielded) = 1 => raised = "None"
       /\ Len(yielded) >= 2 =>
             /\ yielded[2].kind = "Tree"
             /\ yielded[2].tree = yielded[1].tree
             /\ SansLengths(yielded[2].nodes) = SansLengths(yielded[1].nodes)
             /\ \A n \in 1..Len(yielded[2].nodes) :
                   yielded[2].nodes[n].edge_length = None
             /\ stream.script = << >>
             /\ SubSeq(consumed, FirstReading + 1, Len(consumed))
                   = SubSeq(consumed, 1, FirstReading)

\* "(A[c]:1);" or "(A:[c]1);" was read with the length 1.0 on the leaf and
\* the comment, and read again with the comment and no length
C39_Witness ==
    /\ stream.written
    /\ Len(yielded) >= 2
    /\ SubSeq(consumed, 1, 6)
          = << LPAREN, << "A" >>, COLON, << "1" >>, RPAREN, SEMICOLON >>
    /\ yielded[1].nodes[2].edge_length # None
    /\ yielded[1].nodes[2].comments = << C_plain >>
    /\ yielded[2].nodes[2].edge_length = None
    /\ yielded[2].nodes[2].comments = << C_plain >>

----------------------------------------------------------------------------
(* The order of the hook's calls. *)

\* the calls of the hook for the statement being read or just yielded
StatementCalls ==
    { i \in 1..Len(finish_calls) :
        finish_calls[i].seen.token_pos >= StatementStart }

\* the call of the hook for node n in this statement, 0 if there is none
CallOf(n) ==
    IF \E i \in StatementCalls : finish_calls[i].node = n
    THEN CHOOSE i \in StatementCalls : finish_calls[i].node = n
    ELSE 0

\* C40: the calls of finish_node_func of one statement come in post-order:
\* a node's call comes after the calls of all its children, which come in
\* the order of the source; the seed node's call is the last of the
\* statement; and a node that is not the root is handed to the hook
\* before it is added to its parent.
C40_HooksInPostOrder ==
    (InStatement /\ cfg.finish_node_func) =>
       /\ \A i \in StatementCalls :
             LET seen == finish_calls[i].seen
             IN /\ seen.parent_node = 0
                /\ \A k \in 1..Len(seen.child_nodes) :
                      /\ CallOf(seen.child_nodes[k]) \in 1..(i - 1)
                      /\ k > 1 => CallOf(seen.child_nodes[k - 1])
                                     < CallOf(seen.child_nodes[k])
                /\ finish_calls[i].node = tree.seed_node => i = Len(finish_calls)
       /\ AtYield => finish_calls[Len(finish_calls)].node = tree.seed_node

\* "((A),A);" is too long for the streams; "((A));" and "(A,A);" are not:
\* leaf, inner node, root, and first leaf, second leaf, root
C40_Witness ==
    /\ AtYield
    /\ cfg.finish_node_func
    /\ \/ /\ StatementTokens
               = << LPAREN, LPAREN, << "A" >>, RPAREN, RPAREN, SEMICOLON >>
          /\ [ i \in 1..Len(finish_calls) |-> finish_calls[i].node ] = << 3, 2, 1 >>
       \/ /\ StatementTokens
               = << LPAREN, << "A" >>, COMMA, << "A" >>, RPAREN, SEMICOLON >>
          /\ [ i \in 1..Len(finish_calls) |-> finish_calls[i].node ] = << 2, 3, 1 >>

============================================================================
